---- MODULE Spec2Model ----
(***************************************************************************)
(* Deal Analytics Engine of hubspot_deals_auto_v1.                         *)
(*                                                                         *)
(* Three command-line scripts are modelled, each as its own specification  *)
(* over the shared variables:                                              *)
(*   SpecForecast  src/src/forecast.ts       quarterly forecast            *)
(*   SpecHygiene   src/src/deal-hygiene.ts and deal-hygiene-gdrive.ts      *)
(*   SpecAging     src/src/stage-aging.ts    stage aging                   *)
(*                                                                         *)
(* JavaScript values are tagged records; a string is the sequence of its   *)
(* characters, except an ISO-8601 timestamp text, which is kept as the     *)
(* instant it denotes (field iso), and a literal of the program text (field *)
(* lit).  Times are milliseconds.                                          *)
(***************************************************************************)
EXTENDS Integers, Sequences, FiniteSets, TLC

VARIABLES
    script,         \* which script is running
    pc,             \* position of main() in that script
    now,            \* the wall clock (new Date())
    quarter,        \* forecast: QuarterInfo handed to processForecastDeals
    salesDeals,     \* forecast: result.results of searchDealsByStages
    forecastDeals,  \* forecast: accumulator of processForecastDeals
    skippedCount,   \* forecast: accumulator of processForecastDeals
    cursor,         \* index of the next deal the loop of main() handles
    summary,        \* the summary object the script built (or NoSummary)
    typesModule,    \* hygiene: which revision of the types module is linked
    results,        \* hygiene / aging: result.results of searchDealsByStages
    reports,        \* hygiene: DealHygieneReport[] built by main
    analyzedDeals,  \* aging: StageAgingDeal[] built by main
    pipelines,      \* weekly: Pipeline[] returned by fetchPipelines
    week,           \* weekly: the result of getCurrentWeek
    activeDeals,    \* weekly: the active pipeline deals main fetched
    closedWonDeals, \* weekly: the closed won deals main fetched
    closedLostDeals,\* weekly: the closed lost deals main fetched
    report,         \* weekly: the WeeklyForecastReport main built
    narration,      \* forecasts: how the generateText call ended
    exitCode,       \* forecasts: how the process ended after its report
    crmDeals        \* hygiene: the deals the CRM holds

\* the state of the weekly forecast script
weeklyVars == <<pipelines, week, activeDeals, closedWonDeals, closedLostDeals, report>>

\* the end of a run and the CRM behind the searches
runVars == <<narration, exitCode, crmDeals>>

vars == <<script, pc, now, quarter, salesDeals, forecastDeals, skippedCount,
          cursor, summary, typesModule, results, reports, analyzedDeals,
          weeklyVars, runVars>>

----------------------------------------------------------------------------
(* Bounds of the model                                                     *)

MaxDeals == 3        \* longest deal list a search returns
MaxStrLen == 2       \* longest free-text property value

----------------------------------------------------------------------------
(* The end of a process                                                    *)

\* the process has not ended; it ended with the exit code code
Running == [exited |-> FALSE]
Exited(code) == [exited |-> TRUE, code |-> code]

----------------------------------------------------------------------------
(* JavaScript values                                                       *)

Undefined == [t |-> "undefined"]
Null == [t |-> "null"]
NaN == [t |-> "nan"]
Num(n) == [t |-> "number", n |-> n]
Str(s) == [t |-> "string", s |-> s]
IsoStr(ms) == [t |-> "string", iso |-> ms]
Lit(text) == [t |-> "string", lit |-> text]
List(l) == [t |-> "array", l |-> l]
InvalidDate == [t |-> "date", valid |-> FALSE]
DateOf(ms) == [t |-> "date", valid |-> TRUE, ms |-> ms]
NoSummary == [t |-> "none"]

IsCharStr(v) == v.t = "string" /\ "s" \in DOMAIN v
IsIsoStr(v) == v.t = "string" /\ "iso" \in DOMAIN v

\* ToBoolean: the falsy values are undefined, null, "", 0 and NaN
Truthy(v) ==
    CASE v.t = "undefined" -> FALSE
      [] v.t = "null" -> FALSE
      [] v.t = "nan" -> FALSE
      [] v.t = "number" -> v.n # 0
      [] IsCharStr(v) -> v.s # <<>>
      [] v.t = "array" -> TRUE
      [] OTHER -> TRUE

Digits == {"0", "1", "2", "3", "4", "5", "6", "7", "8", "9"}
DigitVal(c) ==
    CASE c = "0" -> 0 [] c = "1" -> 1 [] c = "2" -> 2 [] c = "3" -> 3 [] c = "4" -> 4
      [] c = "5" -> 5 [] c = "6" -> 6 [] c = "7" -> 7 [] c = "8" -> 8 [] c = "9" -> 9

RECURSIVE TrimStart(_)
TrimStart(s) ==
    IF s # <<>> /\ Head(s) = " " THEN TrimStart(Tail(s)) ELSE s

RECURSIVE TrimEnd(_)
TrimEnd(s) ==
    IF s # <<>> /\ s[Len(s)] = " " THEN TrimEnd(SubSeq(s, 1, Len(s) - 1)) ELSE s

\* String.prototype.trim
Trim(s) == TrimEnd(TrimStart(s))

RECURSIVE DigitPrefix(_)
DigitPrefix(s) ==
    IF s # <<>> /\ Head(s) \in Digits
    THEN <<Head(s)>> \o DigitPrefix(Tail(s))
    ELSE <<>>

RECURSIVE DecimalValue(_)
DecimalValue(d) ==
    IF d = <<>> THEN 0
    ELSE 10 * DecimalValue(SubSeq(d, 1, Len(d) - 1)) + DigitVal(d[Len(d)])

----------------------------------------------------------------------------
(* Numbers with a fraction.  A JavaScript number is an IEEE 754 binary64    *)
(* value; one that is not negative is kept as m * 2^e, with m written in    *)
(* binary, least significant bit first and without leading zeros, m odd or  *)
(* zero.  Sums are rounded to 53 significant bits, to nearest, ties to even *)
(* (the amounts are far from the overflow and the subnormal range).         *)

Double(bits, e) == [bits |-> bits, e |-> e]
DoubleZero == Double(<<>>, 0)

\* the k low binary digits of the natural number n
FixedBits(n, k) == [i \in 1..k |-> (n \div 2^(i - 1)) % 2]

\* the digits without the zeros at the top
DropLeadingZeros(bits) ==
    LET ones == {i \in 1..Len(bits) : bits[i] = 1}
    IN  IF ones = {} THEN <<>>
        ELSE SubSeq(bits, 1, CHOOSE i \in ones : \A j \in ones : j <= i)

\* the binary digits of the natural number n < 2^31
BitsOf(n) == DropLeadingZeros(FixedBits(n, 31))

RECURSIVE ValueOf(_)
\* the number a short run of binary digits stands for
ValueOf(bits) == IF bits = <<>> THEN 0 ELSE Head(bits) + 2 * ValueOf(Tail(bits))

RECURSIVE AddChunks(_, _, _)
\* the binary digits of the sum of two numbers and a carry, 24 digits at a
\* time
AddChunks(a, b, carry) ==
    IF a = <<>> /\ b = <<>> THEN FixedBits(carry, 1)
    ELSE LET la == IF Len(a) < 24 THEN Len(a) ELSE 24
             lb == IF Len(b) < 24 THEN Len(b) ELSE 24
             sum == ValueOf(SubSeq(a, 1, la)) + ValueOf(SubSeq(b, 1, lb)) + carry
         IN  FixedBits(sum % 2^24, 24)
                \o AddChunks(SubSeq(a, la + 1, Len(a)), SubSeq(b, lb + 1, Len(b)),
                             sum \div 2^24)

AddBits(a, b, carry) == DropLeadingZeros(AddChunks(a, b, carry))

\* the number of zeros at the low end of digits that are not all zero
LowZeros(bits) ==
    (CHOOSE i \in 1..Len(bits) : bits[i] = 1 /\ \A j \in 1..(i - 1) : bits[j] = 0) - 1

\* m * 2^e with the low zero bits of m moved into the exponent
Normalized(bits, e) ==
    IF bits = <<>> THEN DoubleZero
    ELSE Double(SubSeq(bits, LowZeros(bits) + 1, Len(bits)), e + LowZeros(bits))

\* the binary64 value nearest to m * 2^e: m is rounded to 53 significant
\* bits, a tie goes to the even neighbour
RoundToDouble(bits, e) ==
    IF Len(bits) <= 53 THEN Normalized(bits, e)
    ELSE LET dropped == Len(bits) - 53
             kept == SubSeq(bits, dropped + 1, Len(bits))
             half == bits[dropped] = 1
             sticky == \E i \in 1..(dropped - 1) : bits[i] = 1
             up == half /\ (sticky \/ kept[1] = 1)
         IN  Normalized(IF up THEN AddBits(kept, <<1>>, 0) ELSE kept, e + dropped)

\* the number n as a binary64 value (n < 2^53 is exact)
DoubleOf(n) == Normalized(BitsOf(n), 0)

\* the digits of m * 2^e written for the exponent low <= e
AlignedBits(x, low) ==
    IF x.bits = <<>> THEN <<>> ELSE [i \in 1..(x.e - low) |-> 0] \o x.bits

\* a + b on numbers
DoubleAdd(a, b) ==
    LET low == IF a.e < b.e THEN a.e ELSE b.e
    IN  RoundToDouble(AddBits(AlignedBits(a, low), AlignedBits(b, low), 0), low)

\* a < b on numbers
DoubleLT(a, b) ==
    LET low == IF a.e < b.e THEN a.e ELSE b.e
        x == AlignedBits(a, low)
        y == AlignedBits(b, low)
    IN  \/ Len(x) < Len(y)
        \/ /\ Len(x) = Len(y)
           /\ \E i \in 1..Len(x) :
                 /\ x[i] < y[i]
                 /\ \A j \in (i + 1)..Len(x) : x[j] = y[j]

RECURSIVE DoubleSumFrom(_, _)
\* reduce((sum, x) => sum + x, start): the terms are added from the left
DoubleSumFrom(start, terms) ==
    IF terms = <<>> THEN start
    ELSE DoubleSumFrom(DoubleAdd(start, Head(terms)), Tail(terms))

DoubleSum(terms) == DoubleSumFrom(DoubleZero, terms)

RECURSIVE FractionChunks(_, _, _)
\* the binary digits of rem / divisor below the point, 16 at a time for
\* the number of times given: the digits, least significant first, and the
\* remainder that is left
FractionChunks(rem, divisor, times) ==
    IF times = 0 THEN [digits |-> <<>>, rem |-> rem]
    ELSE LET next == FractionChunks((rem * 2^16) % divisor, divisor, times - 1)
         IN  [digits |-> next.digits \o FixedBits((rem * 2^16) \div divisor, 16),
              rem |-> next.rem]

RECURSIVE PowerOfTen(_)
PowerOfTen(k) == IF k = 0 THEN 1 ELSE 10 * PowerOfTen(k - 1)

\* the binary64 value nearest to the decimal number with the integer digits
\* whole and at most four fraction digits fraction: whole.fraction is
\* n / 10^k, whose binary digits are taken down to 2^-80; what is left
\* after them counts as a digit below the rounding position
DecimalToDouble(whole, fraction) ==
    LET n == DecimalValue(whole \o fraction)
        divisor == PowerOfTen(Len(fraction))
        below == FractionChunks(n % divisor, divisor, 5)
        quotient == DropLeadingZeros(below.digits \o BitsOf(n \div divisor))
        digits == IF below.rem > 0 /\ quotient # <<>>
                  THEN <<1>> \o Tail(quotient) ELSE quotient
    IN  RoundToDouble(digits, 0 - 80)

\* parseFloat: the argument is converted to a string, leading white space is
\* skipped and the longest numeric prefix is read: digits, and after a point
\* more digits; no such prefix gives NaN.  A number with a fraction is kept
\* as its binary64 value (field dbl), a whole number as n.  Exponents and
\* signs do not occur in the texts.
\* The text of an ISO timestamp starts with its four-digit year, which is not
\* represented, so such a value is kept out of the amounts.
parseFloat(v) ==
    CASE v.t = "number" -> v
      [] IsCharStr(v) ->
            LET text == TrimStart(v.s)
                d == DigitPrefix(text)
                rest == SubSeq(text, Len(d) + 1, Len(text))
                f == IF rest # <<>> /\ Head(rest) = "." THEN DigitPrefix(Tail(rest))
                     ELSE <<>>
            IN  IF d = <<>> /\ f = <<>> THEN NaN
                ELSE IF DecimalValue(f) = 0 THEN Num(DecimalValue(d))
                ELSE [t |-> "number", dbl |-> DecimalToDouble(d, f)]
      [] OTHER -> NaN

\* a number as a binary64 value
ToDouble(v) == IF "n" \in DOMAIN v THEN DoubleOf(v.n) ELSE v.dbl

isNaN(v) == v.t = "nan"

\* new Date(text): an ISO timestamp gives its instant, other text (letters,
\* blanks) gives an Invalid Date
NewDate(v) ==
    IF IsIsoStr(v) THEN DateOf(v.iso) ELSE InvalidDate

\* relational operators on dates compare the time values; a comparison with
\* an Invalid Date (NaN) is false
DateLE(a, b) == a.valid /\ b.valid /\ a.ms <= b.ms
DateLT(a, b) == a.valid /\ b.valid /\ a.ms < b.ms

RECURSIVE SumSeq(_)
SumSeq(s) == IF s = <<>> THEN 0 ELSE Head(s) + SumSeq(Tail(s))

\* all sequences over S of length at most n
SeqsUpTo(S, n) == UNION {[1..k -> S] : k \in 0..n}

\* the free-text values a property can hold
Chars == {"1", "a", " "}
Texts == SeqsUpTo(Chars, MaxStrLen)

\* a search result: the deals in the order returned, ids given by position
WithIds(props) == [i \in 1..Len(props) |-> [id |-> i, properties |-> props[i]]]

\* deal lists of length at most MaxDeals over Core in which at most one deal
\* is drawn from the larger set Wide
DealLists(Core, Wide) ==
    {WithIds(l) : l \in
        SeqsUpTo(Core, MaxDeals) \cup
        UNION {{[c EXCEPT ![k] = x] : c \in [1..n -> Core], k \in 1..n, x \in Wide}
               : n \in 1..MaxDeals}}

\* props[name]: a property the deal does not carry reads as undefined
Get(props, name) == IF name \in DOMAIN props THEN props[name] ELSE Undefined

\* Map.prototype.get
MapGet(map, key) == IF key \in DOMAIN map THEN map[key] ELSE Undefined

\* a || b
OrElse(a, b) == IF Truthy(a) THEN a ELSE b

----------------------------------------------------------------------------
(* The local calendar behind Date: an instant of the calendar is the pair   *)
(* of its day, counted from 1 January of FirstYear, and its time of day in  *)
(* milliseconds.  Every local day has 24 hours.                             *)

\* the years of the calendar; 1 January 2023, its day 0, is a Sunday
Years == 2023..2026
FirstYear == CHOOSE y \in Years : \A z \in Years : y <= z

At(day, tod) == [day |-> day, tod |-> tod]

IsLeap(y) == (y % 4 = 0 /\ y % 100 # 0) \/ y % 400 = 0

\* the number of days of month m (0 = January) of year y
DaysInMonth(y, m) ==
    IF m = 1 THEN (IF IsLeap(y) THEN 29 ELSE 28)
    ELSE IF m \in {3, 5, 8, 10} THEN 30 ELSE 31

DaysInYear(y) == IF IsLeap(y) THEN 366 ELSE 365

RECURSIVE DaysBeforeYear(_)
DaysBeforeYear(y) ==
    IF y <= FirstYear THEN 0 ELSE DaysBeforeYear(y - 1) + DaysInYear(y - 1)

RECURSIVE DaysBeforeMonth(_, _)
DaysBeforeMonth(y, m) ==
    IF m = 0 THEN 0 ELSE DaysBeforeMonth(y, m - 1) + DaysInMonth(y, m - 1)

\* the day of the calendar that year y, month m, day-of-month d name; m and d
\* outside their range carry over into the neighbouring years and months,
\* as the Date constructor and setDate do
DayNumber(y, m, d) ==
    LET yy == y + (m \div 12)
        mm == m % 12
    IN  DaysBeforeYear(yy) + DaysBeforeMonth(yy, mm) + d - 1

getFullYear(date) ==
    CHOOSE y \in Years :
        DaysBeforeYear(y) <= date.ms.day /\ date.ms.day < DaysBeforeYear(y) + DaysInYear(y)

getMonth(date) ==
    LET y == getFullYear(date)
        inYear == date.ms.day - DaysBeforeYear(y)
    IN  CHOOSE m \in 0..11 :
            DaysBeforeMonth(y, m) <= inYear /\ inYear < DaysBeforeMonth(y, m) + DaysInMonth(y, m)

getDate(date) ==
    LET y == getFullYear(date)
    IN  date.ms.day - DaysBeforeYear(y) - DaysBeforeMonth(y, getMonth(date)) + 1

\* day 0 of the calendar is a Sunday (getDay() = 0)
getDay(date) == date.ms.day % 7

TimeOfDay(h, mi, sec, ms) == ((h * 60 + mi) * 60 + sec) * 1000 + ms

\* new Date(year, month, day, hours, minutes, seconds, ms)
NewLocalDate(y, m, d, h, mi, sec, ms) ==
    DateOf(At(DayNumber(y, m, d), TimeOfDay(h, mi, sec, ms)))

\* date.setDate(d)
setDate(date, d) ==
    DateOf(At(DayNumber(getFullYear(date), getMonth(date), d), date.ms.tod))

\* date.setHours(h, mi, sec, ms)
setHours(date, h, mi, sec, ms) ==
    DateOf(At(date.ms.day, TimeOfDay(h, mi, sec, ms)))

\* a <= b and a < b on instants of the calendar
AtLE(a, b) == a.day < b.day \/ (a.day = b.day /\ a.tod <= b.tod)
CalLE(a, b) == a.valid /\ b.valid /\ AtLE(a.ms, b.ms)
CalLT(a, b) == a.valid /\ b.valid /\ a.ms # b.ms /\ AtLE(a.ms, b.ms)

\* getCurrentQuarter with the end put on the first day of the next quarter
getCurrentQuarter_EndNextDay(nowDate) ==
    LET year == getFullYear(nowDate)
        month == getMonth(nowDate)
        q == (month \div 3) + 1
    IN  [year |-> year,
         quarter |-> q,
         startDate |-> NewLocalDate(year, (q - 1) * 3, 1, 0, 0, 0, 0),
         endDate |-> NewLocalDate(year, q * 3, 1, 23, 59, 59, 999)]

\* getCurrentQuarter, the clock read as nowDate (the label is left out)
getCurrentQuarter(nowDate) ==
    LET year == getFullYear(nowDate)
        month == getMonth(nowDate)
        q == (month \div 3) + 1
        quarterStartMonth == (q - 1) * 3
        quarterEndMonth == q * 3
    IN  [year |-> year,
         quarter |-> q,
         startDate |-> NewLocalDate(year, quarterStartMonth, 1, 0, 0, 0, 0),
         endDate |-> NewLocalDate(year, quarterEndMonth, 0, 23, 59, 59, 999)]

\* getCurrentWeek with Sunday taken as the first day of the week
getCurrentWeek_SundayFirst(nowDate) ==
    LET weekStart == setHours(setDate(nowDate, getDate(nowDate) - getDay(nowDate)), 0, 0, 0, 0)
        weekEnd == setHours(setDate(weekStart, getDate(weekStart) + 6), 23, 59, 59, 999)
    IN  [weekStart |-> weekStart, weekEnd |-> weekEnd, weekEndingDate |-> weekEnd]

\* getCurrentWeek, the clock read as nowDate
getCurrentWeek(nowDate) ==
    LET currentDay == getDay(nowDate)
        daysSinceMonday == IF currentDay = 0 THEN 6 ELSE currentDay - 1
        weekStart == setHours(setDate(nowDate, getDate(nowDate) - daysSinceMonday), 0, 0, 0, 0)
        weekEnd == setHours(setDate(weekStart, getDate(weekStart) + 6), 23, 59, 59, 999)
        weekEndingDate == setHours(weekEnd, 23, 59, 59, 999)
    IN  [weekStart |-> weekStart, weekEnd |-> weekEnd, weekEndingDate |-> weekEndingDate]

----------------------------------------------------------------------------
(* Quarterly forecast: src/src/forecast.ts                                 *)

\* the instants at which the forecast is run: in the last quarter of 2025
\* and in the first quarter of 2026
ForecastInstants ==
    {At(DayNumber(2025, 10, 15), TimeOfDay(12, 0, 0, 0)),
     At(DayNumber(2026, 1, 1), TimeOfDay(12, 0, 0, 0))}

\* the quarters processForecastDeals is run with
Quarters == {getCurrentQuarter(DateOf(n)) : n \in ForecastInstants}

\* close dates around the ends of the last quarter of 2025, and in the
\* first and second month of the quarter after it
CloseDateValues ==
    {Undefined, Null, Str(<<>>), Str(<<" ">>), Str(<<"a">>)} \cup
    {IsoStr(At(DayNumber(2025, 8, 30), TimeOfDay(23, 59, 59, 999))),
     IsoStr(At(DayNumber(2025, 9, 1), 0)),
     IsoStr(At(DayNumber(2025, 10, 15), 0)),
     IsoStr(At(DayNumber(2025, 11, 31), TimeOfDay(23, 59, 59, 999))),
     IsoStr(At(DayNumber(2026, 0, 1), 0)),
     IsoStr(At(DayNumber(2026, 1, 15), 0))}

AmountValues == {Undefined, Null, Num(0), Num(5)} \cup {Str(s) : s \in Texts}

\* amounts with cents
CentAmounts == {Str(<<"0", ".", "1", "2">>), Str(<<"3", "9", "4", "3", "6", ".", "3", "8">>)}

OwnerValues == {Undefined, Null, Str(<<>>), Lit("o1"), Lit("o2")}

ForecastProps(cd, am, ow) == [closedate |-> cd, amount |-> am, hubspot_owner_id |-> ow]

\* every close date with an amount of each kind, every amount on a close
\* date inside each quarter, every owner on deals that close in the first
\* quarter of 2026, and amounts with cents in its first two months
AnyForecastDeals ==
    {ForecastProps(cd, am, Undefined) :
        cd \in CloseDateValues, am \in {Undefined, Null, Num(5), Str(<<"a">>)}}
    \cup
    {ForecastProps(cd, am, Undefined) :
        cd \in {IsoStr(At(DayNumber(2025, 10, 15), 0)), IsoStr(At(DayNumber(2026, 0, 1), 0))},
        am \in AmountValues}
    \cup
    {ForecastProps(IsoStr(At(DayNumber(2026, 0, 1), 0)), am, ow) :
        am \in {Num(0), Num(5), Str(<<"1", "1">>)}, ow \in OwnerValues}
    \cup
    {ForecastProps(cd, am, Null) :
        cd \in {IsoStr(At(DayNumber(2026, 0, 1), 0)), IsoStr(At(DayNumber(2026, 1, 15), 0))},
        am \in CentAmounts}

CoreForecastDeals ==
    {ForecastProps(IsoStr(At(DayNumber(2026, 0, 1), 0)), Str(<<"1", "1">>), Lit("o1")),
     ForecastProps(IsoStr(At(DayNumber(2026, 1, 15), 0)), Num(5), Null),
     ForecastProps(Undefined, Null, Undefined)}

\* the owner names main looks up for the owner ids of the deals; the owner
\* o2 is not found
ownerNames == [k \in {Lit("o1")} |-> Lit("Ann Lee")]

\* isInQuarter with the last instant of the quarter left out
isInQuarter_ExclusiveEnd(date, q) == CalLE(q.startDate, date) /\ CalLT(date, q.endDate)

isInQuarter(date, q) == CalLE(q.startDate, date) /\ CalLE(date, q.endDate)

\* the loop body with a deal outside the quarter counted as skipped
ForecastStep_CountsOutOfQuarter(deal, owners, q, acc) ==
    LET properties == deal.properties
        closeDateStr == properties.closedate
        closeDate == NewDate(closeDateStr)
        amount == parseFloat(properties.amount)
    IN  IF ~Truthy(closeDateStr) \/ ~isInQuarter(closeDate, q) \/ isNaN(amount)
        THEN [acc EXCEPT !.skippedCount = @ + 1]
        ELSE [acc EXCEPT !.forecastDeals =
                Append(@, [dealId |-> deal.id,
                           dealOwner |-> OrElse(properties.hubspot_owner_id, Null),
                           dealOwnerName |->
                              IF Truthy(properties.hubspot_owner_id)
                              THEN OrElse(MapGet(owners, properties.hubspot_owner_id),
                                          Lit("Unknown Owner"))
                              ELSE Lit("Unassigned"),
                           amount |-> ToDouble(amount),
                           closeDate |-> closeDate])]

\* one iteration of the loop of processForecastDeals over deal, from the
\* accumulators acc = [forecastDeals, skippedCount]
ForecastStep(deal, owners, q, acc) ==
    LET properties == deal.properties
        closeDateStr == properties.closedate
        closeDate == NewDate(closeDateStr)
        amount == parseFloat(properties.amount)
    IN  IF ~Truthy(closeDateStr)
        THEN [acc EXCEPT !.skippedCount = @ + 1]
        ELSE IF ~isInQuarter(closeDate, q)
        THEN acc
        ELSE IF isNaN(amount)
        THEN [acc EXCEPT !.skippedCount = @ + 1]
        ELSE [acc EXCEPT !.forecastDeals =
                Append(@, [dealId |-> deal.id,
                           dealOwner |-> OrElse(properties.hubspot_owner_id, Null),
                           dealOwnerName |->
                              IF Truthy(properties.hubspot_owner_id)
                              THEN OrElse(MapGet(owners, properties.hubspot_owner_id),
                                          Lit("Unknown Owner"))
                              ELSE Lit("Unassigned"),
                           amount |-> ToDouble(amount),
                           closeDate |-> closeDate])]

RECURSIVE processForecastDealsFrom(_, _, _, _)
processForecastDealsFrom(deals, owners, q, acc) ==
    IF deals = <<>> THEN acc
    ELSE processForecastDealsFrom(Tail(deals), owners, q,
                                  ForecastStep(Head(deals), owners, q, acc))

processForecastDeals(deals, owners, q) ==
    processForecastDealsFrom(deals, owners, q, [forecastDeals |-> <<>>, skippedCount |-> 0])

\* the exact quotient a / b, kept as a fraction
Quotient(a, b) == [num |-> a, den |-> b]

\* getMonthName: the month and the year of new Date(year, monthNumber - 1, 1),
\* which toLocaleDateString writes out
getMonthName(monthNumber, year) ==
    LET date == NewLocalDate(year, monthNumber - 1, 1, 0, 0, 0, 0)
    IN  [month |-> getMonth(date), year |-> getFullYear(date)]

AmountsOf(deals) == [i \in 1..Len(deals) |-> deals[i].amount]

\* the monthly breakdown with a bucket only for the months that have a deal
MonthlyBreakdownOf_OnlyMonthsWithDeals(fDeals, q) ==
    LET InMonth(month) == SelectSeq(fDeals, LAMBDA d : getMonth(d.closeDate) + 1 = month)
        months == SelectSeq([i \in 1..12 |-> i], LAMBDA m : InMonth(m) # <<>>)
    IN  [i \in 1..Len(months) |->
            [month |-> getMonthName(months[i], q.year),
             monthNumber |-> months[i],
             totalARR |-> DoubleSum(AmountsOf(InMonth(months[i]))),
             dealCount |-> Len(InMonth(months[i])),
             deals |-> InMonth(months[i])]]

\* the monthly breakdown with the deals grouped under getMonth(), the
\* months counted from 0
MonthlyBreakdownOf_ZeroBasedMonth(fDeals, q) ==
    LET quarterStartMonth == getMonth(q.startDate) + 1
        quarterEndMonth == getMonth(q.endDate) + 1
        InMonth(month) == SelectSeq(fDeals, LAMBDA d : getMonth(d.closeDate) = month)
    IN  [i \in 1..(quarterEndMonth - quarterStartMonth + 1) |->
            LET month == quarterStartMonth + i - 1
                deals == InMonth(month)
            IN  [month |-> getMonthName(month, q.year),
                 monthNumber |-> month,
                 totalARR |-> DoubleSum(AmountsOf(deals)),
                 dealCount |-> Len(deals),
                 deals |-> deals]]

\* createForecastSummary: monthlyMap and the loop over the months of the quarter
MonthlyBreakdownOf(fDeals, q) ==
    LET quarterStartMonth == getMonth(q.startDate) + 1
        quarterEndMonth == getMonth(q.endDate) + 1
        InMonth(month) == SelectSeq(fDeals, LAMBDA d : getMonth(d.closeDate) + 1 = month)
    IN  [i \in 1..(quarterEndMonth - quarterStartMonth + 1) |->
            LET month == quarterStartMonth + i - 1
                deals == InMonth(month)
            IN  [month |-> getMonthName(month, q.year),
                 monthNumber |-> month,
                 totalARR |-> DoubleSum(AmountsOf(deals)),
                 dealCount |-> Len(deals),
                 deals |-> deals]]

\* the key of a deal in ownerMap
OwnerKey(deal) == OrElse(deal.dealOwner, Lit("unassigned"))

RECURSIVE OwnerKeysFrom(_, _)
\* the keys of ownerMap in the order of their insertion
OwnerKeysFrom(fDeals, keys) ==
    IF fDeals = <<>> THEN keys
    ELSE LET key == OwnerKey(Head(fDeals))
         IN  OwnerKeysFrom(Tail(fDeals),
                IF \E i \in 1..Len(keys) : keys[i] = key THEN keys ELSE Append(keys, key))

\* the bucket pushed for one entry of ownerMap
OwnerBucket(ownerId, fDeals) ==
    LET deals == SelectSeq(fDeals, LAMBDA d : OwnerKey(d) = ownerId)
    IN  [ownerId |-> IF ownerId = Lit("unassigned") THEN Null ELSE ownerId,
         ownerName |-> OrElse(deals[1].dealOwnerName, Lit("Unassigned")),
         totalARR |-> DoubleSum(AmountsOf(deals)),
         dealCount |-> Len(deals),
         deals |-> deals]

\* the sort with the comparator turned round: by totalARR ascending
SortByARR_Ascending(buckets) ==
    LET n == Len(buckets)
        Before(i, j) ==
            \/ DoubleLT(buckets[i].totalARR, buckets[j].totalARR)
            \/ buckets[i].totalARR = buckets[j].totalARR /\ i < j
        rank == [i \in 1..n |-> 1 + Cardinality({j \in 1..n : Before(j, i)})]
    IN  [r \in 1..n |-> buckets[CHOOSE i \in 1..n : rank[i] = r]]

\* ownerBreakdown.sort((a, b) => b.totalARR - a.totalARR): the sort is
\* stable, so buckets of equal totalARR keep their order
SortByARR(buckets) ==
    LET n == Len(buckets)
        Before(i, j) ==
            \/ DoubleLT(buckets[j].totalARR, buckets[i].totalARR)
            \/ buckets[i].totalARR = buckets[j].totalARR /\ i < j
        rank == [i \in 1..n |-> 1 + Cardinality({j \in 1..n : Before(j, i)})]
    IN  [r \in 1..n |-> buckets[CHOOSE i \in 1..n : rank[i] = r]]

\* createForecastSummary: ownerMap, the buckets of its entries, the sort
OwnerBreakdownOf(fDeals) ==
    LET keys == OwnerKeysFrom(fDeals, <<>>)
    IN  SortByARR([i \in 1..Len(keys) |-> OwnerBucket(keys[i], fDeals)])

createForecastSummary(fDeals, q, skipped) ==
    LET totalARR == DoubleSum(AmountsOf(fDeals))
        totalDeals == Len(fDeals)
    IN  [quarter |-> q,
         totalARR |-> totalARR,
         totalDeals |-> totalDeals,
         averageDealSize |->
            IF totalDeals > 0 THEN Quotient(totalARR, totalDeals)
            ELSE Quotient(DoubleZero, 1),
         monthlyBreakdown |-> MonthlyBreakdownOf(fDeals, q),
         ownerBreakdown |-> OwnerBreakdownOf(fDeals),
         allDeals |-> fDeals,
         skippedDealsCount |-> skipped]

InitForecast ==
    /\ script = "forecast"
    /\ pc = "start"
    /\ now \in ForecastInstants
    /\ quarter = getCurrentQuarter(DateOf(now))
    /\ salesDeals = <<>>
    /\ forecastDeals = <<>>
    /\ skippedCount = 0
    /\ cursor = 1
    /\ summary = NoSummary
    /\ typesModule = "types"
    /\ results = <<>>
    /\ reports = <<>>
    /\ analyzedDeals = <<>>
    /\ pipelines = <<>>
    /\ week = NoSummary
    /\ activeDeals = <<>>
    /\ closedWonDeals = <<>>
    /\ closedLostDeals = <<>>
    /\ report = NoSummary
    /\ narration = "pending"
    /\ exitCode = Running
    /\ crmDeals = <<>>

\* main: searchDealsByStages returns the Proposal deals; none ends the run
ForecastFetch ==
    /\ script = "forecast" /\ pc = "start"
    /\ \E deals \in DealLists(CoreForecastDeals, AnyForecastDeals) :
          /\ salesDeals' = deals
          /\ pc' = IF Len(deals) = 0 THEN "done" ELSE "loop"
    /\ UNCHANGED <<weeklyVars, runVars, script, now, quarter, forecastDeals, skippedCount, cursor,
                   summary, typesModule, results, reports, analyzedDeals>>

\* processForecastDeals: one iteration of its loop
ForecastProcessDeal ==
    /\ script = "forecast" /\ pc = "loop"
    /\ cursor <= Len(salesDeals)
    /\ LET acc == ForecastStep(salesDeals[cursor], ownerNames, quarter,
                      [forecastDeals |-> forecastDeals, skippedCount |-> skippedCount])
       IN  /\ forecastDeals' = acc.forecastDeals
           /\ skippedCount' = acc.skippedCount
    /\ cursor' = cursor + 1
    /\ UNCHANGED <<weeklyVars, runVars, script, pc, now, quarter, salesDeals, summary, typesModule,
                   results, reports, analyzedDeals>>

\* main: no deal closes in the quarter, the run ends without a summary
ForecastEmpty ==
    /\ script = "forecast" /\ pc = "loop"
    /\ cursor > Len(salesDeals)
    /\ Len(forecastDeals) = 0
    /\ pc' = "done"
    /\ UNCHANGED <<weeklyVars, runVars, script, now, quarter, salesDeals, forecastDeals, skippedCount,
                   cursor, summary, typesModule, results, reports, analyzedDeals>>

\* main: createForecastSummary over the processed deals
ForecastSummarize ==
    /\ script = "forecast" /\ pc = "loop"
    /\ cursor > Len(salesDeals)
    /\ Len(forecastDeals) # 0
    /\ summary' = createForecastSummary(forecastDeals, quarter, skippedCount)
    /\ pc' = "summarized"
    /\ UNCHANGED <<weeklyVars, runVars, script, now, quarter, salesDeals, forecastDeals, skippedCount,
                   cursor, typesModule, results, reports, analyzedDeals>>

\* generateForecastEmail: m.deals.sort((a, b) => b.amount - a.amount) sorts
\* the list of the bucket itself, by amount descending; the sort is stable
SortDealsByAmount(deals) ==
    LET n == Len(deals)
        Before(i, j) ==
            \/ DoubleLT(deals[j].amount, deals[i].amount)
            \/ deals[i].amount = deals[j].amount /\ i < j
        rank == [i \in 1..n |-> 1 + Cardinality({j \in 1..n : Before(j, i)})]
    IN  [r \in 1..n |-> deals[CHOOSE i \in 1..n : rank[i] = r]]

\* the outcomes of the generateText call: it resolves with a text or rejects
NarrationOutcomes == {"text", "error"}

\* generateForecastEmail: the summary as the function leaves it, and the text
\* it returns: the generated text, or its own message when generateText
\* rejects (the catch returns it)
generateForecastEmail(s, outcome) ==
    [summary |->
        [s EXCEPT !.monthlyBreakdown =
            [k \in 1..Len(s.monthlyBreakdown) |->
                [s.monthlyBreakdown[k] EXCEPT
                    !.deals = SortDealsByAmount(s.monthlyBreakdown[k].deals)]]],
     emailBody |->
        IF outcome = "text" THEN "text"
        ELSE "Failed to generate AI email report. Please check console output for details."]

\* main: displayForecastReport; it sorts copies of the lists it prints
ForecastDisplay ==
    /\ script = "forecast" /\ pc = "summarized"
    /\ pc' = "displayed"
    /\ UNCHANGED <<weeklyVars, runVars, script, now, quarter, salesDeals, forecastDeals,
                   skippedCount, cursor, summary, typesModule, results, reports,
                   analyzedDeals>>

\* main: generateForecastEmail, the email is printed and main returns
ForecastEmail ==
    /\ script = "forecast" /\ pc = "displayed"
    /\ \E outcome \in NarrationOutcomes :
          /\ narration' = outcome
          /\ summary' = generateForecastEmail(summary, outcome).summary
    /\ exitCode' = Exited(0)
    /\ pc' = "complete"
    /\ UNCHANGED <<weeklyVars, crmDeals, script, now, quarter, salesDeals, forecastDeals,
                   skippedCount, cursor, typesModule, results, reports, analyzedDeals>>

NextForecast ==
    \/ ForecastFetch
    \/ ForecastProcessDeal
    \/ ForecastEmpty
    \/ ForecastSummarize
    \/ ForecastDisplay
    \/ ForecastEmail

SpecForecast == InitForecast /\ [][NextForecast]_vars

----------------------------------------------------------------------------
(* Deal hygiene: src/src/deal-hygiene.ts, src/src/deal-hygiene-gdrive.ts,  *)
(* with the types module src/src/types.ts or its revision unnamed/part_006 *)

Prop(label, propertyName) == [label |-> label, propertyName |-> propertyName]

\* REQUIRED_PROPERTIES of src/src/types.ts
REQUIRED_PROPERTIES ==
    << Prop("Product/s", "product_s"),
       Prop("Prior EHR", "prior_ehr"),
       Prop("Deal Collaborator", "hs_all_collaborator_owner_ids"),
       Prop("Last Activity Date (EDT)", "notes_last_updated"),
       Prop("Next Activity Date (EDT)", "notes_next_activity_date"),
       Prop("Next Step", "hs_next_step"),
       Prop("Close Date (EDT)", "closedate"),
       Prop("Deal Name", "dealname"),
       Prop("Deal Owner", "hubspot_owner_id"),
       Prop("Deal Stage", "dealstage"),
       Prop("Deal Substage", "proposal_stage"),
       Prop("Amount", "amount") >>

\* REQUIRED_PROPERTIES of unnamed/part_006
REQUIRED_PROPERTIES_part006 ==
    <<Prop("Next Meeting Start Time", "hs_next_meeting_start_time")>>
        \o REQUIRED_PROPERTIES

\* the list a types module has when it is configured with no property
REQUIRED_PROPERTIES_empty == <<>>

RequiredProperties(module) ==
    IF module = "part_006" THEN REQUIRED_PROPERTIES_part006
    ELSE IF module = "empty" THEN REQUIRED_PROPERTIES_empty
    ELSE REQUIRED_PROPERTIES

\* isPropertyMissing without the test for white space
isPropertyMissing_NoTrim(propertyName, value) ==
    IF value = Null \/ value = Undefined \/ value = Str(<<>>) THEN TRUE
    ELSE IF propertyName = "amount" /\ value = Num(0) THEN TRUE
    ELSE IF value.t = "array" /\ Len(value.l) = 0 THEN TRUE
    ELSE FALSE

\* isPropertyMissing of src/src/types.ts: a zero amount is missing
isPropertyMissing(propertyName, value) ==
    IF value = Null \/ value = Undefined \/ value = Str(<<>>) THEN TRUE
    ELSE IF propertyName = "amount" /\ value = Num(0) THEN TRUE
    ELSE IF value.t = "array" /\ Len(value.l) = 0 THEN TRUE
    ELSE IF IsCharStr(value) /\ Trim(value.s) = <<>> THEN TRUE
    ELSE FALSE

\* isPropertyMissing of unnamed/part_006: a zero amount is present
isPropertyMissing_part006(propertyName, value) ==
    IF propertyName = "amount" /\ value = Num(0) THEN FALSE
    ELSE IF value = Null \/ value = Undefined \/ value = Str(<<>>) THEN TRUE
    ELSE IF value.t = "array" /\ Len(value.l) = 0 THEN TRUE
    ELSE IF IsCharStr(value) /\ Trim(value.s) = <<>> THEN TRUE
    ELSE FALSE

IsMissingIn(module, propertyName, value) ==
    IF module = "part_006"
    THEN isPropertyMissing_part006(propertyName, value)
    ELSE isPropertyMissing(propertyName, value)

\* the score with the rounding dropped
MathRound_Floor(num, den) == num \div den

\* Math.round(num / den) for den > 0: the nearest integer, halves upwards.
\* The quotients the scripts round (k/12, k/13, sums of scores over a few
\* deals) are never within a float's error of a half.
MathRound(num, den) == (2 * num + den) \div (2 * den)

\* the score taken over one property too few
completenessScore_OffByOne(totalPresent, totalRequired) ==
    MathRound(totalPresent * 100, totalRequired - 1)

\* analyzeDeal: Math.round((totalPresent / totalRequired) * 100); of no
\* required property it is Math.round((0 / 0) * 100), which is NaN
completenessScore(totalPresent, totalRequired) ==
    IF totalRequired = 0 THEN NaN ELSE MathRound(totalPresent * 100, totalRequired)

\* the lookup tables main builds from the pipelines and the owners
StageMap == [k \in {Str(<<"a">>)} |-> Lit("Proposal")]
PipelineMap == [k \in {Str(<<"a">>)} |-> Lit("Sales")]
OwnersMap == [k \in {Str(<<"a">>)} |-> [firstName |-> Lit("Ann"), lastName |-> Lit("Lee")]]

\* analyzeDeal of the hygiene scripts; the gdrive script adds the close date
\* fields, reading the clock (closeDateString, a rendering of closeDate, is
\* left out)
analyzeDeal(deal, module, scriptName, clock) ==
    LET props == deal.properties
        required == RequiredProperties(module)
        propertyChecks ==
            [i \in 1..Len(required) |->
                [label |-> required[i].label,
                 propertyName |-> required[i].propertyName,
                 value |-> Get(props, required[i].propertyName),
                 isMissing |-> IsMissingIn(module, required[i].propertyName,
                                           Get(props, required[i].propertyName))]]
        IsMissingCheck(c) == c.isMissing
        missingProperties == SelectSeq(propertyChecks, IsMissingCheck)
        totalRequired == Len(required)
        totalPresent == totalRequired - Len(missingProperties)
        score == completenessScore(totalPresent, totalRequired)
        dealstage == Get(props, "dealstage")
        pipeline == Get(props, "pipeline")
        ownerId == Get(props, "hubspot_owner_id")
        owner == IF Truthy(ownerId) THEN MapGet(OwnersMap, ownerId) ELSE Null
        closedate == Get(props, "closedate")
        closeDate == IF Truthy(closedate) THEN NewDate(closedate) ELSE Null
        base ==
            [dealId |-> deal.id,
             dealName |-> OrElse(Get(props, "dealname"), Lit("Unnamed Deal")),
             dealStage |-> OrElse(dealstage, Lit("N/A")),
             dealStageName |->
                IF Truthy(dealstage)
                THEN OrElse(MapGet(StageMap, dealstage), dealstage) ELSE Lit("N/A"),
             dealPipeline |-> OrElse(pipeline, Lit("N/A")),
             dealPipelineName |->
                IF Truthy(pipeline)
                THEN OrElse(MapGet(PipelineMap, pipeline), pipeline) ELSE Lit("N/A"),
             dealOwner |-> OrElse(ownerId, Null),
             dealOwnerName |->
                IF owner \notin {Null, Undefined}
                THEN <<owner.firstName, owner.lastName>> ELSE Null,
             propertyChecks |-> propertyChecks,
             missingProperties |-> missingProperties,
             completenessScore |-> score,
             totalRequired |-> totalRequired,
             totalPresent |-> totalPresent,
             totalMissing |-> Len(missingProperties)]
    IN  IF scriptName = "deal-hygiene-gdrive"
        THEN [closeDate |-> closeDate,
              isCloseDatePastDue |->
                 IF closeDate # Null THEN DateLT(closeDate, DateOf(clock)) ELSE FALSE]
             @@ base
        ELSE base

\* the tiers of createSummary; a score of NaN (no required property)
\* compares false with every bound
IsExcellent(r) == r.totalRequired > 0 /\ r.completenessScore >= 90
IsGood(r) == r.totalRequired > 0 /\ r.completenessScore >= 70 /\ r.completenessScore < 90
\* the poor tier reaching up to a score of 75
IsPoor_UpTo75(r) == r.completenessScore <= 75

IsPoor(r) == r.totalRequired > 0 /\ r.completenessScore < 70
IsCritical(r) == r.totalMissing >= 3
HasIssues(r) == r.totalMissing >= 1
IsPastDue(r) == r.isCloseDatePastDue

\* createSummary of the hygiene scripts
createSummary(rs, module, scriptName) ==
    LET required == RequiredProperties(module)
        totalCompleteness ==
            IF Len(required) = 0 /\ Len(rs) > 0 THEN NaN
            ELSE SumSeq([i \in 1..Len(rs) |-> rs[i].completenessScore])
        MissingCount(name) ==
            Cardinality({i \in 1..Len(rs) :
                \E k \in 1..Len(rs[i].missingProperties) :
                    rs[i].missingProperties[k].propertyName = name})
        base ==
            [totalDeals |-> Len(rs),
             averageCompleteness |->
                IF Len(rs) = 0 THEN 0
                ELSE IF Len(required) = 0 THEN NaN
                ELSE MathRound(totalCompleteness, Len(rs)),
             propertyMissingCounts |->
                [i \in 1..Len(required) |->
                    [propertyName |-> required[i].propertyName,
                     label |-> required[i].label,
                     missingCount |-> MissingCount(required[i].propertyName),
                     percentage |->
                        IF Len(rs) > 0
                        THEN MathRound(MissingCount(required[i].propertyName) * 100, Len(rs))
                        ELSE 0]],
             dealsByCompleteness |->
                [excellent |-> SelectSeq(rs, IsExcellent),
                 good |-> SelectSeq(rs, IsGood),
                 poor |-> SelectSeq(rs, IsPoor)]]
    IN  IF scriptName = "deal-hygiene-gdrive"
        THEN [dealsWithIssues |-> SelectSeq(rs, HasIssues),
              dealsWithPastDueCloseDates |-> SelectSeq(rs, IsPastDue),
              pastDueCount |-> Len(SelectSeq(rs, IsPastDue))] @@ base
        ELSE [criticalDeals |-> SelectSeq(rs, IsCritical)] @@ base

\* the values a deal property is given; Absent marks a property the deal
\* does not carry at all
Absent == [t |-> "absent"]

HygieneValues ==
    {Undefined, Null, Num(0), Num(5), List(<<>>), List(<<Str(<<"a">>)>>)} \cup
    {Str(s) : s \in SeqsUpTo({" ", "a"}, MaxStrLen)}

HygienePropNames ==
    {REQUIRED_PROPERTIES_part006[i].propertyName :
        i \in 1..Len(REQUIRED_PROPERTIES_part006)} \cup {"pipeline"}

\* a deal with every property filled in
FilledProps ==
    [n \in HygienePropNames |-> IF n = "closedate" THEN IsoStr(1) ELSE Str(<<"a">>)]

\* the names of the last k required properties
LastRequired(k) ==
    {REQUIRED_PROPERTIES[i].propertyName :
        i \in (Len(REQUIRED_PROPERTIES) - k + 1)..Len(REQUIRED_PROPERTIES)}

\* the filled deal with its last k required properties set to v
HygieneProps(k, v) ==
    IF v = Absent
    THEN [n \in HygienePropNames \ LastRequired(k) |-> FilledProps[n]]
    ELSE [n \in HygienePropNames |-> IF n \in LastRequired(k) THEN v ELSE FilledProps[n]]

CoreHygieneDeals ==
    {HygieneProps(0, Absent), HygieneProps(5, Absent)}

AnyHygieneDeals ==
    {HygieneProps(k, v) : k \in 1..Len(REQUIRED_PROPERTIES),
                          v \in HygieneValues \cup {Absent}}

\* the instants the clock shows; the filled close date lies between them
Instants == {0, 2}

InitHygiene ==
    /\ script \in {"deal-hygiene", "deal-hygiene-gdrive"}
    /\ typesModule \in {"types", "part_006"}
    /\ script = "deal-hygiene-gdrive" => typesModule = "types"
    /\ pc = "start"
    /\ now = 0
    /\ quarter = NoSummary
    /\ salesDeals = <<>>
    /\ forecastDeals = <<>>
    /\ skippedCount = 0
    /\ cursor = 1
    /\ summary = NoSummary
    /\ results = <<>>
    /\ reports = <<>>
    /\ analyzedDeals = <<>>
    /\ pipelines = <<>>
    /\ week = NoSummary
    /\ activeDeals = <<>>
    /\ closedWonDeals = <<>>
    /\ closedLostDeals = <<>>
    /\ report = NoSummary
    /\ narration = "pending"
    /\ exitCode = Running
    /\ crmDeals = <<>>

\* main: searchDealsByStages returns the deals of the target stages
HygieneFetch ==
    /\ script \in {"deal-hygiene", "deal-hygiene-gdrive"} /\ pc = "start"
    /\ results' \in DealLists(CoreHygieneDeals, AnyHygieneDeals)
    /\ pc' = "loop"
    /\ UNCHANGED <<weeklyVars, runVars, script, now, quarter, salesDeals, forecastDeals, skippedCount,
                   cursor, summary, typesModule, reports, analyzedDeals>>

\* main: result.results.map(analyzeDeal), one deal.  analyzeDeal of the
\* gdrive script reads the clock (new Date()), which never runs backwards;
\* the other script does not look at it.
HygieneAnalyzeDeal ==
    /\ script \in {"deal-hygiene", "deal-hygiene-gdrive"} /\ pc = "loop"
    /\ cursor <= Len(results)
    /\ \E clock \in Instants :
          /\ clock >= now
          /\ script = "deal-hygiene" => clock = now
          /\ now' = clock
          /\ reports' = Append(reports,
                            analyzeDeal(results[cursor], typesModule, script, clock))
    /\ cursor' = cursor + 1
    /\ UNCHANGED <<weeklyVars, runVars, script, pc, quarter, salesDeals, forecastDeals, skippedCount,
                   summary, typesModule, results, analyzedDeals>>

\* main: createSummary(reports)
HygieneSummarize ==
    /\ script \in {"deal-hygiene", "deal-hygiene-gdrive"} /\ pc = "loop"
    /\ cursor > Len(results)
    /\ summary' = createSummary(reports, typesModule, script)
    /\ pc' = "summarized"
    /\ UNCHANGED <<weeklyVars, runVars, script, now, quarter, salesDeals, forecastDeals, skippedCount,
                   cursor, typesModule, results, reports, analyzedDeals>>

NextHygiene ==
    \/ HygieneFetch
    \/ HygieneAnalyzeDeal
    \/ HygieneSummarize

SpecHygiene == InitHygiene /\ [][NextHygiene]_vars

----------------------------------------------------------------------------
(* Stage aging: src/src/stage-aging.ts                                     *)

StageConfig(stageId, stageName, thresholdDays, flagReason) ==
    [stageId |-> stageId, stageName |-> stageName,
     thresholdDays |-> thresholdDays, flagReason |-> flagReason]

STAGE_CONFIGS ==
    << StageConfig("17915773", "SQL", 10, "Stalled in SQL"),
       StageConfig("963167283", "Demo - Completed", 14, "Stalled in Demo"),
       StageConfig("59865091", "Proposal", 7, "Stalled in Proposal") >>

NO_ACTIVITY_THRESHOLD_DAYS == 7

\* 1000 * 60 * 60 * 24 of calculateDaysBetween
MS_PER_DAY == 1000 * 60 * 60 * 24

\* the name of a property made of a prefix and a stage id, and a plain name
PropName(prefix, stageId) == <<prefix, stageId>>
Plain(name) == <<name, "">>

\* the difference in days rounded to the nearest day
calculateDaysBetween_Rounded(startDate, endDate) ==
    IF startDate.valid /\ endDate.valid
    THEN Num(((endDate.ms - startDate.ms) + (MS_PER_DAY \div 2)) \div MS_PER_DAY)
    ELSE NaN

\* calculateDaysBetween: Math.floor of the difference in days; an Invalid
\* Date has the time value NaN and gives NaN
calculateDaysBetween(startDate, endDate) ==
    IF startDate.valid /\ endDate.valid
    THEN Num((endDate.ms - startDate.ms) \div MS_PER_DAY)
    ELSE NaN

\* a > n on numbers; false when a is NaN
NumGT(a, n) == a.t = "number" /\ a.n > n

\* resolveStageDateProperty of hubspot.ts (its code is not in src/): the v2
\* property hs_v2_date_entered_<stageId> if the deal has a value for it,
\* else the legacy property hs_date_entered_<stageId>, else null
resolveStageDateProperty(deal, stageId) ==
    LET v2 == PropName("hs_v2_date_entered_", stageId)
        legacy == PropName("hs_date_entered_", stageId)
    IN  IF Truthy(Get(deal.properties, v2))
        THEN [property |-> v2, value |-> Get(deal.properties, v2)]
        ELSE IF Truthy(Get(deal.properties, legacy))
        THEN [property |-> legacy, value |-> Get(deal.properties, legacy)]
        ELSE Null

\* the flags with only the first one that applies kept
flagReasonsOf_FirstOnly(daysInStage, daysSinceModified, closeDate, nowDate, stageConfig) ==
    IF NumGT(daysInStage, stageConfig.thresholdDays) THEN <<stageConfig.flagReason>>
    ELSE IF daysSinceModified # Null /\ NumGT(daysSinceModified, NO_ACTIVITY_THRESHOLD_DAYS)
    THEN <<"No Recent Activity">>
    ELSE IF closeDate # Null /\ DateLT(closeDate, nowDate)
    THEN <<"Past-Due Close Date">>
    ELSE <<>>

\* analyzeDeal, "Determine flag reasons": three independent tests, each
\* pushing its flag
flagReasonsOf(daysInStage, daysSinceModified, closeDate, nowDate, stageConfig) ==
    (IF NumGT(daysInStage, stageConfig.thresholdDays)
     THEN <<stageConfig.flagReason>> ELSE <<>>)
    \o (IF daysSinceModified # Null /\ NumGT(daysSinceModified, NO_ACTIVITY_THRESHOLD_DAYS)
        THEN <<"No Recent Activity">> ELSE <<>>)
    \o (IF closeDate # Null /\ DateLT(closeDate, nowDate)
        THEN <<"Past-Due Close Date">> ELSE <<>>)

\* analyzeDeal reporting the v2 property whichever property was resolved
analyzeDeal_aging_AlwaysV2(deal, stageConfig, clock) ==
    LET nowDate == DateOf(clock)
        props == deal.properties
        dateProperty == resolveStageDateProperty(deal, stageConfig.stageId)
    IN  IF dateProperty = Null \/ ~Truthy(dateProperty.value) THEN Null
        ELSE
        LET dateEnteredStage == NewDate(dateProperty.value)
            daysInStage == calculateDaysBetween(dateEnteredStage, nowDate)
            lastModifiedDate ==
                IF Truthy(Get(props, Plain("hs_lastmodifieddate")))
                THEN NewDate(Get(props, Plain("hs_lastmodifieddate"))) ELSE Null
            daysSinceModified ==
                IF lastModifiedDate # Null
                THEN calculateDaysBetween(lastModifiedDate, nowDate) ELSE Null
            closeDate ==
                IF Truthy(Get(props, Plain("closedate")))
                THEN NewDate(Get(props, Plain("closedate"))) ELSE Null
            amount ==
                IF Truthy(Get(props, Plain("amount")))
                THEN parseFloat(Get(props, Plain("amount"))) ELSE Null
        IN  [dealId |-> deal.id,
             dealStage |-> stageConfig.stageId,
             dealStageName |-> stageConfig.stageName,
             amount |-> amount,
             closeDate |-> closeDate,
             dateEnteredStage |-> dateEnteredStage,
             daysInStage |-> daysInStage,
             lastModifiedDate |-> lastModifiedDate,
             daysSinceModified |-> daysSinceModified,
             flagReasons |-> flagReasonsOf(daysInStage, daysSinceModified, closeDate,
                                           nowDate, stageConfig),
             thresholdDays |-> stageConfig.thresholdDays,
             datePropertyUsed |-> PropName("hs_v2_date_entered_", stageConfig.stageId)]

\* analyzeDeal of stage-aging.ts, the clock read as clock; null when no
\* date-entered property is found (the owner, pipeline and formatted date
\* fields are left out)
analyzeDeal_aging(deal, stageConfig, clock) ==
    LET nowDate == DateOf(clock)
        props == deal.properties
        dateProperty == resolveStageDateProperty(deal, stageConfig.stageId)
    IN  IF dateProperty = Null \/ ~Truthy(dateProperty.value) THEN Null
        ELSE
        LET dateEnteredStage == NewDate(dateProperty.value)
            daysInStage == calculateDaysBetween(dateEnteredStage, nowDate)
            lastModifiedDate ==
                IF Truthy(Get(props, Plain("hs_lastmodifieddate")))
                THEN NewDate(Get(props, Plain("hs_lastmodifieddate"))) ELSE Null
            daysSinceModified ==
                IF lastModifiedDate # Null
                THEN calculateDaysBetween(lastModifiedDate, nowDate) ELSE Null
            closeDate ==
                IF Truthy(Get(props, Plain("closedate")))
                THEN NewDate(Get(props, Plain("closedate"))) ELSE Null
            amount ==
                IF Truthy(Get(props, Plain("amount")))
                THEN parseFloat(Get(props, Plain("amount"))) ELSE Null
        IN  [dealId |-> deal.id,
             dealStage |-> stageConfig.stageId,
             dealStageName |-> stageConfig.stageName,
             amount |-> amount,
             closeDate |-> closeDate,
             dateEnteredStage |-> dateEnteredStage,
             daysInStage |-> daysInStage,
             lastModifiedDate |-> lastModifiedDate,
             daysSinceModified |-> daysSinceModified,
             flagReasons |-> flagReasonsOf(daysInStage, daysSinceModified, closeDate,
                                           nowDate, stageConfig),
             thresholdDays |-> stageConfig.thresholdDays,
             datePropertyUsed |-> dateProperty.property]

\* STAGE_CONFIGS.find(c => c.stageId === dealStageId)
FindStageConfig(dealStageId) ==
    LET hits == {k \in 1..Len(STAGE_CONFIGS) : Str(STAGE_CONFIGS[k].stageId) = dealStageId}
    IN  IF hits = {} THEN Undefined
        ELSE STAGE_CONFIGS[CHOOSE k \in hits : \A j \in hits : k <= j]

\* a + b on numbers, NaN when either is NaN
NumAdd(a, b) == IF a.t = "number" /\ b.t = "number" THEN Num(a.n + b.n) ELSE NaN

\* a > b on numbers; false when either is NaN
ValGT(a, b) == a.t = "number" /\ b.t = "number" /\ a.n > b.n

RECURSIVE SumVals(_)
SumVals(s) == IF s = <<>> THEN Num(0) ELSE NumAdd(Head(s), SumVals(Tail(s)))

\* a / n for a count n > 0, kept as a fraction; NaN stays NaN
DivVal(a, n) == IF a.t = "number" THEN Quotient(a.n, n) ELSE NaN

\* Math.round of a fraction; NaN stays NaN
RoundVal(q) == IF q = NaN THEN NaN ELSE Num(MathRound(q.num, q.den))

Perms(n) == {f \in [1..n -> 1..n] : \A i, j \in 1..n : f[i] = f[j] => i = j}

\* [...numbers].sort((a, b) => a - b): the elements in non-decreasing order.
\* With a NaN among them the comparator answers NaN and is not a consistent
\* order, so the resulting order is implementation-defined: any arrangement.
SortOutcomes(numbers) ==
    LET n == Len(numbers)
        arranged == {[i \in 1..n |-> numbers[f[i]]] : f \in Perms(n)}
    IN  IF \E i \in 1..n : numbers[i] = NaN
        THEN arranged
        ELSE {a \in arranged : \A i \in 1..(n - 1) : a[i].n <= a[i + 1].n}

\* calculateMedian, from the sorted copy of its argument
calculateMedian(sorted) ==
    IF Len(sorted) = 0 THEN Quotient(0, 1)
    ELSE LET mid == Len(sorted) \div 2
         IN  IF Len(sorted) % 2 = 0
             THEN DivVal(NumAdd(sorted[mid], sorted[mid + 1]), 2)
             ELSE DivVal(sorted[mid + 1], 1)

\* stageDeals.reduce((longest, current) =>
\*     current.daysInStage > longest.daysInStage ? current : longest)
RECURSIVE LongestFrom(_, _)
LongestFrom(longest, rest) ==
    IF rest = <<>> THEN longest
    ELSE LongestFrom(IF ValGT(Head(rest).daysInStage, longest.daysInStage)
                     THEN Head(rest) ELSE longest,
                     Tail(rest))

DaysOf(deals) == [i \in 1..Len(deals) |-> deals[i].daysInStage]

\* createStageBreakdown; sorted is what the sort inside calculateMedian made
\* of the stage's daysInStage values
createStageBreakdown(stageConfig, deals, sorted) ==
    LET InStage(d) == d.dealStage = stageConfig.stageId
        stageDeals == SelectSeq(deals, InStage)
        OverThreshold(d) == NumGT(d.daysInStage, stageConfig.thresholdDays)
        flaggedDeals == SelectSeq(stageDeals, OverThreshold)
        daysInStageArray == DaysOf(stageDeals)
        averageDaysInStage ==
            IF Len(daysInStageArray) > 0
            THEN DivVal(SumVals(daysInStageArray), Len(daysInStageArray))
            ELSE Quotient(0, 1)
        medianDaysInStage == calculateMedian(sorted)
    IN  [stageName |-> stageConfig.stageName,
         stageId |-> stageConfig.stageId,
         thresholdDays |-> stageConfig.thresholdDays,
         totalDeals |-> Len(stageDeals),
         flaggedDeals |-> Len(flaggedDeals),
         averageDaysInStage |-> RoundVal(averageDaysInStage),
         medianDaysInStage |-> RoundVal(medianDaysInStage),
         longestDeal |->
            IF Len(stageDeals) > 0
            THEN LongestFrom(Head(stageDeals), Tail(stageDeals)) ELSE Null,
         flaggedDealsList |-> flaggedDeals]

StageDaysOf(deals, stageConfig) ==
    LET InStage(d) == d.dealStage = stageConfig.stageId
    IN  DaysOf(SelectSeq(deals, InStage))

\* the outcomes of the sorts createSummary runs: one per stage, one overall
Sorters(deals) ==
    [stages : {f \in [1..Len(STAGE_CONFIGS) -> UNION {SortOutcomes(StageDaysOf(deals, STAGE_CONFIGS[k])) : k \in 1..Len(STAGE_CONFIGS)}] :
                 \A k \in 1..Len(STAGE_CONFIGS) :
                     f[k] \in SortOutcomes(StageDaysOf(deals, STAGE_CONFIGS[k]))},
     overall : SortOutcomes(DaysOf(deals))]

\* a summary that counts every flagged deal as stale
createSummary_aging_StaleIsFlagged(deals, sorter) ==
    LET IsFlagged(d) == Len(d.flagReasons) > 0
        HasFlag(d, flag) == \E i \in 1..Len(d.flagReasons) : d.flagReasons[i] = flag
        NoActivity(d) == HasFlag(d, "No Recent Activity")
        PastDue(d) == HasFlag(d, "Past-Due Close Date")
        allDaysInStage == DaysOf(deals)
        overallAverageDays ==
            IF Len(allDaysInStage) > 0
            THEN DivVal(SumVals(allDaysInStage), Len(allDaysInStage))
            ELSE Quotient(0, 1)
    IN  [totalDeals |-> Len(deals),
         totalFlagged |-> Len(SelectSeq(deals, IsFlagged)),
         staleDeals |-> Len(SelectSeq(deals, IsFlagged)),
         noActivityDeals |-> Len(SelectSeq(deals, NoActivity)),
         pastDueDeals |-> Len(SelectSeq(deals, PastDue)),
         stageBreakdowns |->
            [k \in 1..Len(STAGE_CONFIGS) |->
                createStageBreakdown(STAGE_CONFIGS[k], deals, sorter.stages[k])],
         overallAverageDays |-> RoundVal(overallAverageDays),
         overallMedianDays |-> RoundVal(calculateMedian(sorter.overall)),
         allDeals |-> deals]

\* createSummary of stage-aging.ts
createSummary_aging(deals, sorter) ==
    LET IsFlagged(d) == Len(d.flagReasons) > 0
        IsStale(d) == \E i \in 1..Len(d.flagReasons) :
                         d.flagReasons[i] \in {STAGE_CONFIGS[k].flagReason :
                                                  k \in 1..Len(STAGE_CONFIGS)}
        HasFlag(d, flag) == \E i \in 1..Len(d.flagReasons) : d.flagReasons[i] = flag
        NoActivity(d) == HasFlag(d, "No Recent Activity")
        PastDue(d) == HasFlag(d, "Past-Due Close Date")
        allDaysInStage == DaysOf(deals)
        overallAverageDays ==
            IF Len(allDaysInStage) > 0
            THEN DivVal(SumVals(allDaysInStage), Len(allDaysInStage))
            ELSE Quotient(0, 1)
    IN  [totalDeals |-> Len(deals),
         totalFlagged |-> Len(SelectSeq(deals, IsFlagged)),
         staleDeals |-> Len(SelectSeq(deals, IsStale)),
         noActivityDeals |-> Len(SelectSeq(deals, NoActivity)),
         pastDueDeals |-> Len(SelectSeq(deals, PastDue)),
         stageBreakdowns |->
            [k \in 1..Len(STAGE_CONFIGS) |->
                createStageBreakdown(STAGE_CONFIGS[k], deals, sorter.stages[k])],
         overallAverageDays |-> RoundVal(overallAverageDays),
         overallMedianDays |-> RoundVal(calculateMedian(sorter.overall)),
         allDeals |-> deals]

\* the clock at the start of a run, and the instants it shows afterwards
AgingEpoch == 20 * MS_PER_DAY
AgingInstants == {AgingEpoch, AgingEpoch + 1}

\* how long before the start of the run a deal entered its stage (negative:
\* after it), and was last modified
EnteredAges ==
    {-MS_PER_DAY - 1, -1, 0, MS_PER_DAY - 1, MS_PER_DAY} \cup
    {d * MS_PER_DAY : d \in {7, 8, 10, 11, 14, 15}}
ModifiedValues ==
    {Undefined} \cup {IsoStr(AgingEpoch - d * MS_PER_DAY) : d \in {7, 8}}
AgingCloseDates ==
    {Undefined, Str(<<"a">>)} \cup {IsoStr(AgingEpoch + d) : d \in {-1, 0, 1}}

\* a deal in the stage with id stageId, the stage-entry date held by the
\* properties the set kinds names
AgingProps(stageId, kinds, entered, modified, closedate) ==
    [n \in {Plain("dealstage"), Plain("hs_lastmodifieddate"), Plain("closedate")}
            \cup {PropName(k, stageId) : k \in kinds} |->
        IF n = Plain("dealstage") THEN Str(stageId)
        ELSE IF n = Plain("hs_lastmodifieddate") THEN modified
        ELSE IF n = Plain("closedate") THEN closedate
        ELSE entered]

MonitoredStageIds == {STAGE_CONFIGS[k].stageId : k \in 1..Len(STAGE_CONFIGS)}

AnyAgingDeals ==
    {AgingProps(st, {"hs_v2_date_entered_"}, IsoStr(AgingEpoch - age), m, cd) :
        st \in MonitoredStageIds, age \in EnteredAges,
        m \in ModifiedValues, cd \in AgingCloseDates}
    \cup
    {AgingProps(st, kinds, e, Undefined, Undefined) :
        st \in MonitoredStageIds \cup {"closedwon"},
        kinds \in SUBSET {"hs_v2_date_entered_", "hs_date_entered_"},
        e \in {IsoStr(AgingEpoch), Str(<<>>), Str(<<"a">>)}}
    \cup
    {[AgingProps(st, {"hs_v2_date_entered_", "hs_date_entered_"}, e, Undefined, Undefined)
        EXCEPT ![PropName("hs_date_entered_", st)] = IsoStr(AgingEpoch - 8 * MS_PER_DAY)] :
        st \in MonitoredStageIds, e \in {IsoStr(AgingEpoch), Str(<<>>)}}

CoreAgingDeals ==
    {AgingProps("17915773", {"hs_v2_date_entered_"}, IsoStr(AgingEpoch),
                Undefined, Undefined),
     AgingProps("59865091", {"hs_date_entered_"}, IsoStr(AgingEpoch - 8 * MS_PER_DAY),
                IsoStr(AgingEpoch - 8 * MS_PER_DAY), IsoStr(AgingEpoch - 1))}

InitAging ==
    /\ script = "stage-aging"
    /\ pc = "start"
    /\ now = AgingEpoch
    /\ quarter = NoSummary
    /\ salesDeals = <<>>
    /\ forecastDeals = <<>>
    /\ skippedCount = 0
    /\ cursor = 1
    /\ summary = NoSummary
    /\ typesModule = "types"
    /\ results = <<>>
    /\ reports = <<>>
    /\ analyzedDeals = <<>>
    /\ pipelines = <<>>
    /\ week = NoSummary
    /\ activeDeals = <<>>
    /\ closedWonDeals = <<>>
    /\ closedLostDeals = <<>>
    /\ report = NoSummary
    /\ narration = "pending"
    /\ exitCode = Running
    /\ crmDeals = <<>>

\* main, step 3: searchDealsByStages; no deal ends the run
AgingFetch ==
    /\ script = "stage-aging" /\ pc = "start"
    /\ \E deals \in DealLists(CoreAgingDeals, AnyAgingDeals) :
          /\ results' = deals
          /\ pc' = IF Len(deals) = 0 THEN "done" ELSE "loop"
    /\ UNCHANGED <<weeklyVars, runVars, script, now, quarter, salesDeals, forecastDeals, skippedCount,
                   cursor, summary, typesModule, reports, analyzedDeals>>

\* the loop left at the first deal that is passed over
AgingAnalyzeDeal_StopsAtSkip ==
    /\ script = "stage-aging" /\ pc = "loop"
    /\ cursor <= Len(results)
    /\ LET deal == results[cursor]
           stageConfig == FindStageConfig(Get(deal.properties, Plain("dealstage")))
       IN  IF stageConfig = Undefined
           THEN UNCHANGED <<now, analyzedDeals>> /\ cursor' = Len(results) + 1
           ELSE \E clock \in AgingInstants :
                  /\ clock >= now
                  /\ now' = clock
                  /\ LET analyzedDeal == analyzeDeal_aging(deal, stageConfig, clock)
                     IN  IF analyzedDeal # Null
                         THEN /\ analyzedDeals' = Append(analyzedDeals, analyzedDeal)
                              /\ cursor' = cursor + 1
                         ELSE /\ analyzedDeals' = analyzedDeals
                              /\ cursor' = Len(results) + 1
    /\ UNCHANGED <<weeklyVars, runVars, script, pc, quarter, salesDeals, forecastDeals, skippedCount,
                   summary, typesModule, results, reports>>

\* main, step 5: one iteration of the loop over the deals.  A deal in an
\* unknown stage is passed over; otherwise analyzeDeal reads the clock and
\* its result is kept unless it is null.
AgingAnalyzeDeal ==
    /\ script = "stage-aging" /\ pc = "loop"
    /\ cursor <= Len(results)
    /\ LET deal == results[cursor]
           stageConfig == FindStageConfig(Get(deal.properties, Plain("dealstage")))
       IN  IF stageConfig = Undefined
           THEN UNCHANGED <<now, analyzedDeals>>
           ELSE \E clock \in AgingInstants :
                  /\ clock >= now
                  /\ now' = clock
                  /\ LET analyzedDeal == analyzeDeal_aging(deal, stageConfig, clock)
                     IN  analyzedDeals' =
                            IF analyzedDeal # Null
                            THEN Append(analyzedDeals, analyzedDeal)
                            ELSE analyzedDeals
    /\ cursor' = cursor + 1
    /\ UNCHANGED <<weeklyVars, runVars, script, pc, quarter, salesDeals, forecastDeals, skippedCount,
                   summary, typesModule, results, reports>>

\* main, step 6: createSummary(analyzedDeals)
AgingSummarize ==
    /\ script = "stage-aging" /\ pc = "loop"
    /\ cursor > Len(results)
    /\ \E sorter \in Sorters(analyzedDeals) :
          summary' = createSummary_aging(analyzedDeals, sorter)
    /\ pc' = "summarized"
    /\ UNCHANGED <<weeklyVars, runVars, script, now, quarter, salesDeals, forecastDeals, skippedCount,
                   cursor, typesModule, results, reports, analyzedDeals>>

NextAging ==
    \/ AgingFetch
    \/ AgingAnalyzeDeal
    \/ AgingSummarize

SpecAging == InitAging /\ [][NextAging]_vars

----------------------------------------------------------------------------
(* Weekly pipeline forecast: src/unnamed/part_004.  A label is the sequence *)
(* of its characters; an amount of money is a number, a weight is counted   *)
(* in hundredths and a weighted amount is a fraction over 100.              *)

UpperCase == <<"A", "B", "C", "D", "E", "F", "G", "H", "I", "J", "K", "L", "M", "N", "O", "P", "Q", "R", "S", "T", "U", "V", "W", "X", "Y", "Z">>
LowerCase == <<"a", "b", "c", "d", "e", "f", "g", "h", "i", "j", "k", "l", "m", "n", "o", "p", "q", "r", "s", "t", "u", "v", "w", "x", "y", "z">>

\* String.prototype.toLowerCase
toLowerCase(s) ==
    [i \in 1..Len(s) |->
        IF \E k \in 1..Len(UpperCase) : UpperCase[k] = s[i]
        THEN LowerCase[CHOOSE k \in 1..Len(UpperCase) : UpperCase[k] = s[i]]
        ELSE s[i]]

\* String.prototype.includes
includes(s, sub) ==
    \E i \in 1..(Len(s) - Len(sub) + 1) : SubSeq(s, i, i + Len(sub) - 1) = sub

\* STAGE_WEIGHTS, in hundredths
STAGE_WEIGHTS == [sql |-> 30, demo |-> 30, proposal |-> 50]

\* ACTIVE_STAGES
ACTIVE_STAGES == <<<<"s", "q", "l">>, <<"d", "e", "m", "o">>, <<"p", "r", "o", "p", "o", "s", "a", "l">>>>

getStageWeight(stageLabel) ==
    LET normalized == Trim(toLowerCase(stageLabel))
    IN  IF includes(normalized, <<"s", "q", "l">>) THEN STAGE_WEIGHTS.sql
        ELSE IF includes(normalized, <<"d", "e", "m", "o">>)
                /\ (includes(normalized, <<"c", "o", "m", "p", "l", "e", "t", "e", "d">>)
                    \/ includes(normalized, <<"c", "o", "m", "p", "l", "e", "t", "e">>))
        THEN STAGE_WEIGHTS.demo
        ELSE IF includes(normalized, <<"p", "r", "o", "p", "o", "s", "a", "l">>) THEN STAGE_WEIGHTS.proposal
        ELSE 0

\* the stage names of the report
NameSQL == <<"S", "Q", "L">>
NameDemoCompleted == <<"D", "e", "m", "o", " ", "C", "o", "m", "p", "l", "e", "t", "e", "d">>
NameProposal == <<"P", "r", "o", "p", "o", "s", "a", "l">>

getReadableStageName(stageLabel) ==
    LET normalized == Trim(toLowerCase(stageLabel))
    IN  IF includes(normalized, <<"s", "q", "l">>) THEN NameSQL
        ELSE IF includes(normalized, <<"d", "e", "m", "o">>)
                /\ (includes(normalized, <<"c", "o", "m", "p", "l", "e", "t", "e", "d">>)
                    \/ includes(normalized, <<"c", "o", "m", "p", "l", "e", "t", "e">>))
        THEN NameDemoCompleted
        ELSE IF includes(normalized, <<"p", "r", "o", "p", "o", "s", "a", "l">>) THEN NameProposal
        ELSE stageLabel

\* findStageIdsByLabels of hubspot.ts: the ids of the stages whose label
\* contains one of the labels, in the order of the pipelines and stages
RECURSIVE Flatten(_)
Flatten(seqs) == IF seqs = <<>> THEN <<>> ELSE Head(seqs) \o Flatten(Tail(seqs))

findStageIdsByLabels(pls, stageLabels) ==
    LET normalizedLabels == [i \in 1..Len(stageLabels) |-> Trim(toLowerCase(stageLabels[i]))]
        Matches(stage) ==
            \E i \in 1..Len(normalizedLabels) :
                includes(Trim(toLowerCase(stage.label)), normalizedLabels[i])
        IdsOf(pipeline) ==
            LET hits == SelectSeq(pipeline.stages, Matches)
            IN  [i \in 1..Len(hits) |-> hits[i].id]
    IN  Flatten([p \in 1..Len(pls) |-> IdsOf(pls[p])])

\* processActivePipelineDeals, "Find the stage label from pipelines": the
\* label of the first stage with the id in the first pipeline that has one
StageLabelOf(stageId, pls) ==
    LET Has(p) == \E k \in 1..Len(pls[p].stages) : pls[p].stages[k].id = stageId
        hits == {p \in 1..Len(pls) : Has(p)}
    IN  IF hits = {} THEN <<"U", "n", "k", "n", "o", "w", "n">>
        ELSE LET p == CHOOSE x \in hits : \A y \in hits : x <= y
                 ks == {k \in 1..Len(pls[p].stages) : pls[p].stages[k].id = stageId}
             IN  pls[p].stages[CHOOSE k \in ks : \A j \in ks : k <= j].label

\* the first loop of processActivePipelineDeals: the deals grouped by the
\* key pipelineId:stageId, the groups in the order their keys first appear
RECURSIVE GroupDeals(_, _, _)
GroupDeals(deals, pls, groups) ==
    IF deals = <<>> THEN groups
    ELSE
    LET deal == Head(deals)
        stageId == Get(deal.properties, "dealstage")
        pipelineId == Get(deal.properties, "pipeline")
        key == <<pipelineId, stageId>>
        at == {g \in 1..Len(groups) : groups[g].key = key}
    IN  IF ~Truthy(stageId) THEN GroupDeals(Tail(deals), pls, groups)
        ELSE IF at = {}
        THEN GroupDeals(Tail(deals), pls,
                Append(groups, [key |-> key, deals |-> <<deal>>,
                                stageLabel |-> StageLabelOf(stageId, pls),
                                pipelineId |-> pipelineId]))
        ELSE GroupDeals(Tail(deals), pls,
                [groups EXCEPT ![CHOOSE g \in at : TRUE].deals = Append(@, deal)])

\* parseFloat(deal.properties.amount || '0')
AmountOrZero(deal) == parseFloat(OrElse(Get(deal.properties, "amount"), Str(<<"0">>)))

RECURSIVE SumAmounts(_)
SumAmounts(deals) ==
    IF deals = <<>> THEN Num(0) ELSE NumAdd(AmountOrZero(Head(deals)), SumAmounts(Tail(deals)))

\* pipelineAmount * stageWeight with the weight left out
Weighted_Unweighted(amount, weight) ==
    IF amount.t = "number" THEN Quotient(amount.n * 100, 100) ELSE NaN

\* pipelineAmount * stageWeight, the weight in hundredths
Weighted(amount, weight) ==
    IF amount.t = "number" THEN Quotient(amount.n * weight, 100) ELSE NaN

\* a + b on fractions over 100
AddWeighted(a, b) ==
    IF a = NaN \/ b = NaN THEN NaN ELSE Quotient(a.num + b.num, 100)

RECURSIVE SumWeighted(_)
SumWeighted(stages) ==
    IF stages = <<>> THEN Quotient(0, 100)
    ELSE AddWeighted(SumWeighted(SubSeq(stages, 1, Len(stages) - 1)),
                     stages[Len(stages)].weightedAmount)

\* stageOrder.indexOf(name), counted from 0; -1 when the name is not in it
stageOrder == <<NameSQL, NameDemoCompleted, NameProposal>>
IndexOf(order, name) ==
    IF \E i \in 1..Len(order) : order[i] = name
    THEN (CHOOSE i \in 1..Len(order) : order[i] = name) - 1
    ELSE -1

\* stageBreakdown.sort((a, b) => aIndex - bIndex): a stable sort by the index
SortByStageOrder(stages) ==
    LET WithIndex(x) ==
            LET Is(st) == IndexOf(stageOrder, st.stageName) = x
            IN  SelectSeq(stages, Is)
    IN  WithIndex(-1) \o WithIndex(0) \o WithIndex(1) \o WithIndex(2)

processActivePipelineDeals(deals, pls) ==
    LET stageGroups == GroupDeals(deals, pls, <<>>)
        raw == [g \in 1..Len(stageGroups) |->
                  LET group == stageGroups[g]
                      pipelineAmount == SumAmounts(group.deals)
                      stageWeight == getStageWeight(group.stageLabel)
                  IN  [stageName |-> getReadableStageName(group.stageLabel),
                       dealCount |-> Len(group.deals),
                       pipelineAmount |-> pipelineAmount,
                       weightedAmount |-> Weighted(pipelineAmount, stageWeight),
                       stageWeight |-> stageWeight]]
        totalPipeline == SumVals([g \in 1..Len(raw) |-> raw[g].pipelineAmount])
        weightedPipeline == SumWeighted(raw)
        stageBreakdown ==
            [g \in 1..Len(raw) |->
                [percentageOfTotal |->
                    IF NumGT(totalPipeline, 0)
                    THEN Quotient(raw[g].pipelineAmount.n * 100, totalPipeline.n)
                    ELSE Quotient(0, 1)] @@ raw[g]]
    IN  [stageBreakdown |-> SortByStageOrder(stageBreakdown),
         totalPipeline |-> totalPipeline,
         weightedPipeline |-> weightedPipeline]

\* isInCurrentWeek
isInCurrentWeek(timestamp, weekStart, weekEnd) ==
    IF ~Truthy(timestamp) THEN FALSE
    ELSE LET date == NewDate(timestamp)
         IN  CalLE(weekStart, date) /\ CalLE(date, weekEnd)

processClosedDeals(deals, weekStart, weekEnd, isClosedWon) ==
    LET dateProperty ==
            IF isClosedWon THEN "hs_date_entered_closedwon" ELSE "hs_date_entered_closedlost"
        InWeek(deal) == isInCurrentWeek(Get(deal.properties, dateProperty), weekStart, weekEnd)
        counted == SelectSeq(deals, InWeek)
    IN  [count |-> Len(counted), amount |-> SumAmounts(counted)]

\* the pipelines fetchPipelines can return
Stage(id, label) == [id |-> Lit(id), label |-> label]
Pipeline(id, label, stages) == [id |-> Lit(id), label |-> label, stages |-> stages]

StageSQL == Stage("s1", <<"S", "Q", "L">>)
StageDemoCompleted == Stage("s2", <<"D", "e", "m", "o", " ", "-", " ", "C", "o", "m", "p", "l", "e", "t", "e", "d">>)
StageProposal == Stage("s3", <<"P", "r", "o", "p", "o", "s", "a", "l">>)
StageClosedWon == Stage("s4", <<"C", "l", "o", "s", "e", "d", " ", "W", "o", "n">>)
StageClosedLost == Stage("s5", <<"C", "l", "o", "s", "e", "d", " ", "L", "o", "s", "t">>)
StageSQLNurture == Stage("s6", <<"S", "Q", "L", " ", "N", "u", "r", "t", "u", "r", "e">>)
StageDemoScheduled == Stage("s7", <<"D", "e", "m", "o", " ", "S", "c", "h", "e", "d", "u", "l", "e", "d">>)
StageDemoNoShow == Stage("s8", <<"D", "e", "m", "o", " ", "N", "o", " ", "S", "h", "o", "w">>)
LabelSales == <<"S", "a", "l", "e", "s">>
LabelPartner == <<"P", "a", "r", "t", "n", "e", "r">>

PipelineConfigs ==
    { \* one sales pipeline with the three active and the two closed stages
      <<Pipeline("p1", LabelSales,
            <<StageSQL, StageDemoCompleted, StageProposal, StageClosedWon, StageClosedLost>>)>>,
      \* a sales pipeline with two SQL stages and two more demo stages
      <<Pipeline("p1", LabelSales,
            <<StageSQL, StageSQLNurture, StageDemoScheduled, StageDemoNoShow, StageClosedWon>>)>>,
      \* a second pipeline, listed first, that uses the stage id s1 as well
      <<Pipeline("p2", LabelPartner, <<Stage("s1", <<"P", "r", "o", "p", "o", "s", "a", "l">>)>>),
        Pipeline("p1", LabelSales, <<StageSQL, StageProposal, StageClosedLost>>)>>,
      \* no sales pipeline
      <<Pipeline("p2", LabelPartner, <<StageSQL>>)>>,
      \* a sales pipeline without an active stage
      <<Pipeline("p1", LabelSales, <<StageClosedWon>>)>> }

\* pipelines.find(p => p.label.toLowerCase() === 'sales'); Undefined if none
FindSalesPipeline(pls) ==
    LET hits == {p \in 1..Len(pls) : toLowerCase(pls[p].label) = <<"s", "a", "l", "e", "s">>}
    IN  IF hits = {} THEN Undefined ELSE pls[CHOOSE p \in hits : \A q \in hits : p <= q]

ClosedWonLabels == <<<<"c", "l", "o", "s", "e", "d", " ", "w", "o", "n">>, <<"c", "l", "o", "s", "e", "d", "w", "o", "n">>>>
ClosedLostLabels == <<<<"c", "l", "o", "s", "e", "d", " ", "l", "o", "s", "t">>, <<"c", "l", "o", "s", "e", "d", "l", "o", "s", "t">>>>

\* the moment a weekly run starts at: noon of Sunday 2 November 2025, in the
\* week from Monday 27 October
WeeklyInstants ==
    {At(DayNumber(2025, 10, 2), TimeOfDay(12, 0, 0, 0))}

\* stage-entry timestamps around that week
ClosedTimestamps ==
    {Undefined, Str(<<>>), Str(<<"a">>),
     IsoStr(At(DayNumber(2025, 9, 26), TimeOfDay(23, 59, 59, 999))),
     IsoStr(At(DayNumber(2025, 9, 27), 0)),
     IsoStr(At(DayNumber(2025, 10, 2), TimeOfDay(23, 59, 59, 999))),
     IsoStr(At(DayNumber(2025, 10, 3), 0))}

WeeklyAmounts ==
    {Undefined, Null, Str(<<>>), Str(<<" ">>), Str(<<"a">>), Str(<<"1">>),
     Str(<<"1", "a">>), Num(0), Num(5)}

MaxClosedDeals == 2

RangeOf(seq) == {seq[i] : i \in 1..Len(seq)}

\* the deals a search by stage ids and pipeline id can return
ActiveProps(stageId, pipelineId, amount) ==
    [dealstage |-> stageId, pipeline |-> pipelineId, amount |-> amount]

AnyActiveDeals(stageIds, pipelineId) ==
    {ActiveProps(st, pipelineId, am) : st \in RangeOf(stageIds), am \in WeeklyAmounts}

CoreActiveDeals(stageIds, pipelineId) ==
    {ActiveProps(stageIds[1], pipelineId, Str(<<"1">>)),
     ActiveProps(stageIds[Len(stageIds)], pipelineId, Str(<<"2">>))}

ClosedProps(stageId, pipelineId, amount, won, lost) ==
    [dealstage |-> stageId, pipeline |-> pipelineId, amount |-> amount,
     hs_date_entered_closedwon |-> won, hs_date_entered_closedlost |-> lost]

AnyClosedDeals(stageIds, pipelineId) ==
    {ClosedProps(st, pipelineId, am, ts, ts) :
        st \in RangeOf(stageIds), am \in WeeklyAmounts, ts \in ClosedTimestamps}

CoreClosedDeals(stageIds, pipelineId) ==
    {ClosedProps(stageIds[1], pipelineId, Str(<<"1">>),
                 IsoStr(At(DayNumber(2025, 9, 27), 0)), IsoStr(At(DayNumber(2025, 9, 27), 0)))}

\* deal lists of length at most n over Core, or (wide) with one deal of Wide
DealListsUpTo(Core, Wide, n, wide) ==
    {WithIds(l) : l \in
        IF wide
        THEN UNION {{[c EXCEPT ![k] = x] : c \in [1..m -> Core], k \in 1..m, x \in Wide}
                    : m \in 1..n}
        ELSE SeqsUpTo(Core, n)}

\* what the searches of a weekly run return: the active, closed won and
\* closed lost deals; a search for no stage id is not made and leaves []
WeeklySearches(salesPipeline) ==
    LET pid == salesPipeline.id
        activeStageIds == findStageIdsByLabels(<<salesPipeline>>, ACTIVE_STAGES)
        closedWonStageIds == findStageIdsByLabels(<<salesPipeline>>, ClosedWonLabels)
        closedLostStageIds == findStageIdsByLabels(<<salesPipeline>>, ClosedLostLabels)
        Closed(ids, wide) ==
            IF Len(ids) = 0 THEN {<<>>}
            ELSE DealListsUpTo(CoreClosedDeals(ids, pid), AnyClosedDeals(ids, pid),
                               MaxClosedDeals, wide)
        Active(wide) ==
            DealListsUpTo(CoreActiveDeals(activeStageIds, pid),
                          AnyActiveDeals(activeStageIds, pid), MaxDeals, wide)
    IN  UNION {[active : Active(focus = "active"),
                won : Closed(closedWonStageIds, focus = "won"),
                lost : Closed(closedLostStageIds, focus = "lost")]
               : focus \in {"none", "active", "won", "lost"}}

InitWeekly ==
    /\ script = "weekly-forecast"
    /\ pc = "start"
    /\ now = 0
    /\ quarter = NoSummary
    /\ salesDeals = <<>>
    /\ forecastDeals = <<>>
    /\ skippedCount = 0
    /\ cursor = 1
    /\ summary = NoSummary
    /\ typesModule = "types"
    /\ results = <<>>
    /\ reports = <<>>
    /\ analyzedDeals = <<>>
    /\ pipelines = <<>>
    /\ week = NoSummary
    /\ activeDeals = <<>>
    /\ closedWonDeals = <<>>
    /\ closedLostDeals = <<>>
    /\ report = NoSummary
    /\ narration = "pending"
    /\ exitCode = Running
    /\ crmDeals = <<>>

otherVars == <<quarter, salesDeals, forecastDeals, skippedCount, cursor, summary,
                  typesModule, results, reports, analyzedDeals>>

\* main: getCurrentWeek, fetchPipelines, the sales pipeline and its active
\* stages are looked up; without them main throws and the run fails
WeeklyStart ==
    /\ script = "weekly-forecast" /\ pc = "start"
    /\ \E clock \in WeeklyInstants, pls \in PipelineConfigs :
          /\ now' = clock
          /\ week' = getCurrentWeek(DateOf(clock))
          /\ pipelines' = pls
          /\ pc' = IF FindSalesPipeline(pls) = Undefined THEN "failed"
                   ELSE IF Len(findStageIdsByLabels(<<FindSalesPipeline(pls)>>,
                                                    ACTIVE_STAGES)) = 0
                   THEN "failed"
                   ELSE "search"
    /\ UNCHANGED <<runVars, script, otherVars, activeDeals, closedWonDeals, closedLostDeals, report>>

\* main: the three searches
WeeklyFetch ==
    /\ script = "weekly-forecast" /\ pc = "search"
    /\ \E found \in WeeklySearches(FindSalesPipeline(pipelines)) :
          /\ activeDeals' = found.active
          /\ closedWonDeals' = found.won
          /\ closedLostDeals' = found.lost
    /\ pc' = "process"
    /\ UNCHANGED <<runVars, script, now, otherVars, pipelines, week, report>>

\* main: processActivePipelineDeals, processClosedDeals twice, the report
WeeklyProcess ==
    /\ script = "weekly-forecast" /\ pc = "process"
    /\ LET active == processActivePipelineDeals(activeDeals, pipelines)
           closedWon == processClosedDeals(closedWonDeals, week.weekStart, week.weekEnd, TRUE)
           closedLost == processClosedDeals(closedLostDeals, week.weekStart, week.weekEnd, FALSE)
       IN  report' =
              [metrics |-> [weekEnding |-> week.weekEndingDate,
                            totalPipeline |-> active.totalPipeline,
                            weightedPipeline |-> active.weightedPipeline,
                            closedWon |-> closedWon,
                            closedLost |-> closedLost],
               stageBreakdown |-> active.stageBreakdown,
               totalActive |-> active.totalPipeline,
               totalWeighted |-> active.weightedPipeline]
    /\ pc' = "reported"
    /\ UNCHANGED <<runVars, script, now, otherVars, pipelines, week, activeDeals,
                   closedWonDeals, closedLostDeals>>

\* main: displayWeeklyForecastReport
WeeklyDisplay ==
    /\ script = "weekly-forecast" /\ pc = "reported"
    /\ pc' = "displayed"
    /\ UNCHANGED <<runVars, script, now, otherVars, weeklyVars>>

\* generateWeeklyForecastEmail and the end of main: the catch of the
\* function logs and throws again, main rejects and main().catch calls
\* process.exit(1)
WeeklyExitCode(outcome) == IF outcome = "text" THEN 0 ELSE 1

\* main: generateWeeklyForecastEmail, and the end of the run
WeeklyEmail ==
    /\ script = "weekly-forecast" /\ pc = "displayed"
    /\ \E outcome \in NarrationOutcomes :
          /\ narration' = outcome
          /\ exitCode' = Exited(WeeklyExitCode(outcome))
          /\ pc' = IF outcome = "text" THEN "complete" ELSE "failed"
    /\ UNCHANGED <<crmDeals, script, now, otherVars, weeklyVars>>

NextWeekly ==
    \/ WeeklyStart
    \/ WeeklyFetch
    \/ WeeklyProcess
    \/ WeeklyDisplay
    \/ WeeklyEmail

SpecWeekly == InitWeekly /\ [][NextWeekly]_vars

----------------------------------------------------------------------------
(* A run of the deal hygiene checker against the CRM: main of               *)
(* src/src/deal-hygiene.ts from fetchPipelines to the summary, with         *)
(* searchDealsByStages and findStageIdsByLabels of src/unnamed/part_001     *)

\* main: targetStages
TargetStages == <<<<"p", "r", "o", "p", "o", "s", "a", "l">>, <<"d", "e", "m", "o">>>>

\* searchDealsByStages: limit of the search body
SearchLimit == 100

\* searchDealsByStages: the filters of the search body; the dealstage filter
\* is left out for no stage id, the pipeline filter when none is given
SearchFilters(stageIds, pipeline) ==
    (IF Len(stageIds) > 0
     THEN <<[propertyName |-> "dealstage", values |-> RangeOf(stageIds)]>>
     ELSE <<>>)
    \o (IF Truthy(pipeline)
        THEN <<[propertyName |-> "pipeline", values |-> {pipeline}]>>
        ELSE <<>>)

\* searchDealsByStages: one request to the search endpoint, which answers
\* with the first page of the deals that pass every filter (all deals when
\* there is no filter), at most limit of them, and their number in total;
\* the function returns that page
searchDealsByStages(crm, stageIds, pipeline) ==
    LET filters == SearchFilters(stageIds, pipeline)
        Matches(d) ==
            \A f \in 1..Len(filters) :
                Get(d.properties, filters[f].propertyName) \in filters[f].values
        found == SelectSeq(crm, Matches)
    IN  [results |-> IF Len(found) > SearchLimit THEN SubSeq(found, 1, SearchLimit)
                     ELSE found,
         total |-> Len(found)]

\* the pipelines of a portal: one with a demo and a proposal stage, one
\* without either, and two that share the stage id s1
HygienePortals ==
    { <<Pipeline("p1", LabelSales,
            <<StageSQL, StageDemoCompleted, StageProposal, StageClosedWon, StageClosedLost>>)>>,
      <<Pipeline("p1", LabelSales,
            <<StageSQL, Stage("s3", <<"C", "o", "n", "t", "r", "a", "c", "t">>),
              StageClosedWon, StageClosedLost>>)>>,
      <<Pipeline("p2", LabelPartner, <<Stage("s1", <<"P", "r", "o", "p", "o", "s", "a", "l">>)>>),
        Pipeline("p1", LabelSales, <<StageSQL, StageProposal, StageClosedLost>>)>> }

\* the deals of the sales pipeline a portal holds: first inSQL deals in the
\* stage s1, then inProposal deals in the stage s3; the deals lack their
\* last none, one or two required properties in turn
CrmDealsOf(inSQL, inProposal) ==
    [i \in 1..(inSQL + inProposal) |->
        [id |-> i,
         properties |->
            [n \in DOMAIN HygieneProps(i % 3, Absent) |->
                IF n = "dealstage" THEN (IF i <= inSQL THEN Lit("s1") ELSE Lit("s3"))
                ELSE IF n = "pipeline" THEN Lit("p1")
                ELSE HygieneProps(i % 3, Absent)[n]]]]

\* how many deals a portal holds in a stage: none, a few, a full page of the
\* search and one more
CrmContents ==
    {CrmDealsOf(inSQL, inProposal) :
        inSQL \in {0, 1, 2}, inProposal \in {0, 1, SearchLimit, SearchLimit + 1}}

InitHygieneRun ==
    /\ script = "deal-hygiene"
    /\ typesModule \in {"types", "empty"}
    /\ pc = "start"
    /\ now = 0
    /\ quarter = NoSummary
    /\ salesDeals = <<>>
    /\ forecastDeals = <<>>
    /\ skippedCount = 0
    /\ cursor = 1
    /\ summary = NoSummary
    /\ results = <<>>
    /\ reports = <<>>
    /\ analyzedDeals = <<>>
    /\ pipelines = <<>>
    /\ week = NoSummary
    /\ activeDeals = <<>>
    /\ closedWonDeals = <<>>
    /\ closedLostDeals = <<>>
    /\ report = NoSummary
    /\ narration = "pending"
    /\ exitCode = Running
    /\ crmDeals \in CrmContents

\* main: fetchPipelines
HygieneRunPipelines ==
    /\ script = "deal-hygiene" /\ pc = "start"
    /\ pipelines' \in HygienePortals
    /\ pc' = "search"
    /\ UNCHANGED <<runVars, script, now, otherVars, week, activeDeals, closedWonDeals,
                   closedLostDeals, report>>

\* main: findStageIdsByLabels and searchDealsByStages(accessToken, stageIds),
\* whatever the number of stage ids; the results are what main goes on with
HygieneRunSearch ==
    /\ script = "deal-hygiene" /\ pc = "search"
    /\ LET stageIds == findStageIdsByLabels(pipelines, TargetStages)
       IN  results' = searchDealsByStages(crmDeals, stageIds, Undefined).results
    /\ pc' = "loop"
    /\ UNCHANGED <<weeklyVars, runVars, script, now, quarter, salesDeals, forecastDeals,
                   skippedCount, cursor, summary, typesModule, reports, analyzedDeals>>

NextHygieneRun ==
    \/ HygieneRunPipelines
    \/ HygieneRunSearch
    \/ HygieneAnalyzeDeal
    \/ HygieneSummarize

SpecHygieneRun == InitHygieneRun /\ [][NextHygieneRun]_vars

----------------------------------------------------------------------------
(* The clock reads of the forecasts: getCurrentQuarter in src/src/forecast.ts *)
(* and getCurrentWeek in src/unnamed/part_004, at any instant              *)

\* the days on which the scripts are run: from Monday 2 January of the
\* first year to the last day of the last year of the calendar
ClockDays ==
    LET last == CHOOSE y \in Years : \A z \in Years : z <= y
    IN  1..(DaysBeforeYear(last) + DaysInYear(last) - 1)

\* the times of day at which new Date() is read
ClockTimes == {0, 1, TimeOfDay(12, 0, 0, 0), TimeOfDay(23, 59, 59, 999)}

ClockInstants == {At(d, t) : d \in ClockDays, t \in ClockTimes}

InitClock ==
    /\ script \in {"forecast", "weekly-forecast"}
    /\ pc = "start"
    /\ now \in ClockInstants
    /\ quarter = NoSummary
    /\ week = NoSummary
    /\ salesDeals = <<>>
    /\ forecastDeals = <<>>
    /\ skippedCount = 0
    /\ cursor = 1
    /\ summary = NoSummary
    /\ typesModule = "types"
    /\ results = <<>>
    /\ reports = <<>>
    /\ analyzedDeals = <<>>
    /\ pipelines = <<>>
    /\ activeDeals = <<>>
    /\ closedWonDeals = <<>>
    /\ closedLostDeals = <<>>
    /\ report = NoSummary
    /\ narration = "pending"
    /\ exitCode = Running
    /\ crmDeals = <<>>

\* forecast main: const quarter = getCurrentQuarter()
ClockQuarter ==
    /\ script = "forecast" /\ pc = "start"
    /\ quarter' = getCurrentQuarter(DateOf(now))
    /\ pc' = "clock"
    /\ UNCHANGED <<weeklyVars, runVars, script, now, salesDeals, forecastDeals, skippedCount, cursor,
                   summary, typesModule, results, reports, analyzedDeals>>

\* weekly forecast main: getCurrentWeek()
ClockWeek ==
    /\ script = "weekly-forecast" /\ pc = "start"
    /\ week' = getCurrentWeek(DateOf(now))
    /\ pc' = "clock"
    /\ UNCHANGED <<runVars, script, now, otherVars, pipelines, activeDeals, closedWonDeals,
                   closedLostDeals, report>>

NextClock ==
    \/ ClockQuarter
    \/ ClockWeek

SpecClock == InitClock /\ [][NextClock]_vars

----------------------------------------------------------------------------
(* Forecast: what the claims speak of, stated on the raw deal              *)

CloseDateInside(deal, q) ==
    LET cd == deal.properties.closedate
    IN  IsIsoStr(cd) /\ AtLE(q.startDate.ms, cd.iso) /\ AtLE(cd.iso, q.endDate.ms)

CloseDateOutside(deal, q) ==
    LET cd == deal.properties.closedate
    IN  IsIsoStr(cd) /\ (~AtLE(q.startDate.ms, cd.iso) \/ ~AtLE(cd.iso, q.endDate.ms))

NoParseableCloseDate(deal) == ~IsIsoStr(deal.properties.closedate)

NoCloseDate(deal) == deal.properties.closedate \in {Undefined, Null, Str(<<>>)}

AmountNullOrAbsent(deal) == deal.properties.amount \in {Undefined, Null}

\* the amount is a number, or text whose first non-blank character is a digit
AmountReadable(deal) ==
    LET am == deal.properties.amount
    IN  \/ am.t = "number"
        \/ /\ IsCharStr(am)
           /\ \E k \in 1..Len(am.s) :
                 /\ \A j \in 1..(k - 1) : am.s[j] = " "
                 /\ \/ am.s[k] \in Digits
                    \/ am.s[k] = "." /\ k < Len(am.s) /\ am.s[k + 1] \in Digits

ForecastLoopAt == script = "forecast" /\ pc = "loop" /\ cursor <= Len(salesDeals)

\* C1: in processForecastDeals a deal with an in-quarter close date and a
\* null or absent amount adds exactly 1 to skippedCount and is not added to
\* forecastDeals; a deal with a valid amount and a close date outside the
\* quarter leaves skippedCount and forecastDeals as they were.
C1_SkipPolicy ==
    [][ForecastLoopAt =>
          LET deal == salesDeals[cursor]
          IN  /\ (CloseDateInside(deal, quarter) /\ AmountNullOrAbsent(deal))
                    => (skippedCount' = skippedCount + 1 /\ forecastDeals' = forecastDeals)
              /\ (CloseDateOutside(deal, quarter) /\ AmountReadable(deal))
                    => (skippedCount' = skippedCount /\ forecastDeals' = forecastDeals)
       ]_vars

\* both cases of C1 have been processed, in this order
C1_Witness ==
    /\ script = "forecast" /\ pc = "loop" /\ cursor = 3
    /\ CloseDateInside(salesDeals[1], quarter) /\ AmountNullOrAbsent(salesDeals[1])
    /\ CloseDateOutside(salesDeals[2], quarter) /\ AmountReadable(salesDeals[2])
    /\ skippedCount = 1 /\ forecastDeals = <<>>

\* C2 (as claimed): every deal without a parseable close date (absent, null,
\* empty, or text that is no date) is left out of forecastDeals and adds
\* exactly 1 to skippedCount.
C2_UnparseableCloseDateCounted ==
    [][(ForecastLoopAt /\ NoParseableCloseDate(salesDeals[cursor]))
          => (skippedCount' = skippedCount + 1 /\ forecastDeals' = forecastDeals)
       ]_vars

\* the amount of the raw deal i of salesDeals, as parseFloat reads it
RawAmount(i) == ToDouble(parseFloat(salesDeals[i].properties.amount))

\* the sum of the amounts of the raw deals with an index in S, added up in
\* the order of the deals
AmountsAdded(S) ==
    DoubleSum([k \in 1..Cardinality(S) |->
                  RawAmount(CHOOSE i \in S : Cardinality({j \in S : j < i}) = k - 1)])

RECURSIVE SumOver(_, _)
\* the sum of f over the finite set S of indices
SumOver(f, S) ==
    IF S = {} THEN 0
    ELSE LET x == CHOOSE y \in S : TRUE IN f[x] + SumOver(f, S \ {x})

\* the deals of salesDeals the forecast is about, and those counted as skipped
ForecastPopulation ==
    {i \in 1..Len(salesDeals) :
        CloseDateInside(salesDeals[i], quarter) /\ AmountReadable(salesDeals[i])}

SkippedPopulation ==
    {i \in 1..Len(salesDeals) :
        \/ NoCloseDate(salesDeals[i])
        \/ CloseDateInside(salesDeals[i], quarter) /\ ~AmountReadable(salesDeals[i])}

ForecastLoopDone ==
    script = "forecast" /\ pc \in {"loop", "summarized"} /\ cursor > Len(salesDeals)

\* C3: the summary built from processForecastDeals and createForecastSummary
\* has totalARR = the sum of the amounts of exactly the deals with an
\* in-quarter close date and a parseable amount, totalDeals = their number,
\* skippedDealsCount = the number of deals counted as skipped, and
\* averageDealSize = totalARR / totalDeals when totalDeals > 0, else 0.
C3_SummaryTotals ==
    ForecastLoopDone =>
        LET s == createForecastSummary(forecastDeals, quarter, skippedCount)
        IN  /\ pc = "summarized" => summary = s
            /\ s.totalARR = AmountsAdded(ForecastPopulation)
            /\ s.totalDeals = Cardinality(ForecastPopulation)
            /\ {s.allDeals[k].dealId : k \in 1..Len(s.allDeals)} =
                  {salesDeals[i].id : i \in ForecastPopulation}
            /\ s.skippedDealsCount = skippedCount
            /\ s.skippedDealsCount = Cardinality(SkippedPopulation)
            /\ s.averageDealSize.den > 0
            /\ (s.totalDeals > 0) =>
                  (s.averageDealSize.num = s.totalARR /\ s.averageDealSize.den = s.totalDeals)
            /\ (s.totalDeals = 0) => (s.averageDealSize.num = DoubleZero)

\* two deals closing in the quarter and one without a close date
C3_Witness ==
    /\ script = "forecast" /\ pc = "summarized"
    /\ Len(salesDeals) = 3
    /\ NoCloseDate(salesDeals[3])
    /\ summary.totalDeals = 2
    /\ summary.totalARR = DoubleOf(16)
    /\ summary.skippedDealsCount = 1
    /\ summary.averageDealSize = Quotient(DoubleOf(16), 2)

\* the summary of an empty forecast population
C3_WitnessEmpty ==
    /\ ForecastLoopDone /\ forecastDeals = <<>> /\ skippedCount = 2

----------------------------------------------------------------------------
(* Deal hygiene: the claims                                                *)

InHygiene == script \in {"deal-hygiene", "deal-hygiene-gdrive"}

RequiredNames == {RequiredProperties(typesModule)[j].propertyName :
                    j \in 1..Len(RequiredProperties(typesModule))}

\* the required properties of deal that the linked isPropertyMissing calls missing
MissingNames(deal) ==
    {n \in RequiredNames : IsMissingIn(typesModule, n, Get(deal.properties, n))}

\* C4: every hygiene report has 0 <= completenessScore <= 100 and
\* completenessScore = round(100 * (totalRequired - totalMissing) / totalRequired),
\* the nearest integer, where totalMissing counts the required properties
\* that isPropertyMissing classifies missing and totalPresent + totalMissing
\* = totalRequired.
C4_ScoreFormula ==
    InHygiene =>
        \A i \in 1..Len(reports) :
            LET r == reports[i]
                exact == 100 * (r.totalRequired - r.totalMissing)
            IN  /\ r.totalRequired = Cardinality(RequiredNames)
                /\ r.totalMissing = Cardinality(MissingNames(results[i]))
                /\ r.totalPresent + r.totalMissing = r.totalRequired
                /\ 0 <= r.completenessScore /\ r.completenessScore <= 100
                /\ 2 * r.completenessScore * r.totalRequired - 2 * exact <= r.totalRequired
                /\ 2 * exact - 2 * r.completenessScore * r.totalRequired < r.totalRequired

\* a report of a deal with one of twelve properties missing: 91.67 rounds to 92
C4_Witness ==
    /\ InHygiene
    /\ \E i \in 1..Len(reports) :
          /\ reports[i].totalRequired = 12 /\ reports[i].totalMissing = 1
          /\ reports[i].completenessScore = 92

\* C5: a completeness score of 100 implies that no required property is
\* missing: missingProperties is empty and totalMissing is 0.
C5_FullScoreNothingMissing ==
    InHygiene =>
        \A i \in 1..Len(reports) :
            reports[i].completenessScore = 100 =>
                /\ reports[i].missingProperties = <<>>
                /\ reports[i].totalMissing = 0
                /\ MissingNames(results[i]) = {}

\* a report with score 100 next to one with a property missing and a lower score
C5_Witness ==
    /\ InHygiene
    /\ \E i, j \in 1..Len(reports) :
          /\ reports[i].completenessScore = 100 /\ reports[i].totalMissing = 0
          /\ reports[j].totalMissing = 1 /\ reports[j].completenessScore < 100

\* how often report r occurs in the list l
Occurrences(r, l) == Cardinality({k \in 1..Len(l) : l[k] = r})

\* C6: in the HygieneSummary every report is in exactly one of the tiers
\* excellent (score >= 90), good (70 <= score < 90), poor (score < 70), and
\* the three tier sizes sum to totalDeals.
C6_TiersPartition ==
    (InHygiene /\ pc = "summarized") =>
        LET tiers == summary.dealsByCompleteness
        IN  /\ summary.totalDeals = Len(reports)
            /\ Len(tiers.excellent) + Len(tiers.good) + Len(tiers.poor)
                  = summary.totalDeals
            /\ \A i \in 1..Len(reports) :
                  LET r == reports[i]
                  IN  /\ Occurrences(r, tiers.excellent) + Occurrences(r, tiers.good)
                            + Occurrences(r, tiers.poor) = 1
                      /\ Occurrences(r, tiers.excellent) = 1 <=> r.completenessScore >= 90
                      /\ Occurrences(r, tiers.good) = 1
                            <=> (r.completenessScore >= 70 /\ r.completenessScore < 90)
                      /\ Occurrences(r, tiers.poor) = 1 <=> r.completenessScore < 70

\* a summary with one deal in each tier
C6_Witness ==
    /\ InHygiene /\ pc = "summarized"
    /\ summary.totalDeals = 3
    /\ Len(summary.dealsByCompleteness.excellent) = 1
    /\ Len(summary.dealsByCompleteness.good) = 1
    /\ Len(summary.dealsByCompleteness.poor) = 1

\* the raw value of a required property counts as empty: the deal does not
\* carry the property, or it is null, "", white space only, or an empty list
EmptyValued(deal, n) ==
    \/ n \notin DOMAIN deal.properties
    \/ LET v == deal.properties[n]
       IN  \/ v = Null
           \/ v = Str(<<>>)
           \/ IsCharStr(v) /\ \A k \in 1..Len(v.s) : v.s[k] = " "
           \/ v = List(<<>>)

\* C7: a required property that the deal does not carry, or whose value is
\* null, an empty string, white space only or an empty list, is classified
\* missing, and the deal is still scored.
C7_EmptyIsMissing ==
    InHygiene =>
        \A i \in 1..(cursor - 1) :
            /\ i <= Len(reports)
            /\ reports[i].dealId = results[i].id
            /\ reports[i].completenessScore \in 0..100
            /\ \A j \in 1..Len(reports[i].propertyChecks) :
                  LET c == reports[i].propertyChecks[j]
                  IN  EmptyValued(results[i], c.propertyName) =>
                        /\ c.isMissing
                        /\ \E k \in 1..Len(reports[i].missingProperties) :
                              reports[i].missingProperties[k].propertyName = c.propertyName

\* a scored deal that lacks a property altogether, and one with a blank value
C7_Witness ==
    /\ InHygiene
    /\ \E i, j \in 1..Len(reports) :
          /\ "amount" \notin DOMAIN results[i].properties
          /\ reports[i].totalMissing >= 1
          /\ Get(results[j].properties, "amount") = Str(<<" ", " ">>)
          /\ reports[j].totalMissing >= 1

\* C8 (as claimed): scoring a deal again, at any later moment and with the
\* same lookup tables, gives the report it gave before, field by field.
C8_Idempotent ==
    InHygiene =>
        \A i \in 1..Len(reports) :
            reports[i] = analyzeDeal(results[i], typesModule, script, now)

----------------------------------------------------------------------------
(* Stage aging: the claims                                                 *)

\* a step of the loop in which analyzeDeal returned a record; the record is
\* the last of analyzedDeals', made with the clock showing now'
AgingRecordMade ==
    script = "stage-aging" /\ Len(analyzedDeals') = Len(analyzedDeals) + 1

\* q is x / MS_PER_DAY with the fraction cut off towards zero
TruncatedDays(q, x) ==
    IF x >= 0
    THEN q >= 0 /\ q * MS_PER_DAY <= x /\ x - q * MS_PER_DAY < MS_PER_DAY
    ELSE q <= 0 /\ q * MS_PER_DAY >= x /\ q * MS_PER_DAY - x < MS_PER_DAY

\* q is the largest integer with q * MS_PER_DAY <= x
FlooredDays(q, x) == q * MS_PER_DAY <= x /\ x - q * MS_PER_DAY < MS_PER_DAY

\* C9 (as claimed): daysInStage is (now - dateEnteredStage) in whole days
\* truncated toward zero, for every pair of timestamps, and is never
\* negative when dateEnteredStage <= now.
C9_DaysTruncated ==
    [][AgingRecordMade =>
          LET r == analyzedDeals'[Len(analyzedDeals')]
          IN  r.dateEnteredStage.valid =>
                /\ r.daysInStage.t = "number"
                /\ TruncatedDays(r.daysInStage.n, now' - r.dateEnteredStage.ms)
                /\ r.dateEnteredStage.ms <= now' => r.daysInStage.n >= 0
       ]_vars

\* C9 (amended): daysInStage is the floor of (now - dateEnteredStage) in
\* whole days, never rounded to the nearest day, for every pair of
\* timestamps; when dateEnteredStage <= now this is the truncation toward
\* zero and daysInStage is not negative.
C9_DaysFloored ==
    [][AgingRecordMade =>
          LET r == analyzedDeals'[Len(analyzedDeals')]
              elapsed == now' - r.dateEnteredStage.ms
          IN  r.dateEnteredStage.valid =>
                /\ r.daysInStage.t = "number"
                /\ FlooredDays(r.daysInStage.n, elapsed)
                /\ elapsed >= 0 =>
                      (r.daysInStage.n >= 0 /\ TruncatedDays(r.daysInStage.n, elapsed))
       ]_vars

\* a deal one millisecond short of a day in its stage has daysInStage 0, and
\* a deal eight whole days in its stage has daysInStage 8
C9_Witness ==
    /\ script = "stage-aging"
    /\ \E i, j \in 1..Len(analyzedDeals) :
          /\ analyzedDeals[i].dateEnteredStage = DateOf(AgingEpoch - (MS_PER_DAY - 1))
          /\ now = AgingEpoch
          /\ analyzedDeals[i].daysInStage = Num(0)
          /\ analyzedDeals[j].dateEnteredStage = DateOf(AgingEpoch - 8 * MS_PER_DAY)
          /\ analyzedDeals[j].daysInStage = Num(8)

\* the positions of flag in the list l
Positions(flag, l) == {k \in 1..Len(l) : l[k] = flag}

RankElement(vals, r) ==
    CHOOSE x \in {vals[i].n : i \in 1..Len(vals)} :
        /\ Cardinality({i \in 1..Len(vals) : vals[i].n < x}) < r
        /\ Cardinality({i \in 1..Len(vals) : vals[i].n <= x}) >= r

\* twice the standard median: the middle value counted twice for an odd
\* count, the sum of the two middle values for an even count
TwiceMedian(vals) ==
    RankElement(vals, (Len(vals) + 1) \div 2) + RankElement(vals, (Len(vals) \div 2) + 1)

AllNumbers(vals) == \A i \in 1..Len(vals) : vals[i].t = "number"

AgingSummarized == script = "stage-aging" /\ pc = "summarized"

\* C11 (as claimed): for every stage population of 1 to 4 deals, the
\* medianDaysInStage of the stage's StageBreakdown is the standard median of
\* the deals' daysInStage: the middle value for an odd count, the average of
\* the two middle values for an even count.
C11_MedianIsStandard ==
    AgingSummarized =>
        \A k \in 1..Len(STAGE_CONFIGS) :
            LET vals == StageDaysOf(analyzedDeals, STAGE_CONFIGS[k])
                reported == summary.stageBreakdowns[k].medianDaysInStage
            IN  (Len(vals) \in 1..4 /\ AllNumbers(vals))
                    => (reported.t = "number" /\ 2 * reported.n = TwiceMedian(vals))

----------------------------------------------------------------------------
(* Weekly forecast: the claims                                             *)

WeeklyReported == script = "weekly-forecast" /\ pc = "reported"

\* fractions: equality, sum
FracEq(a, b) == a.num * b.den = b.num * a.den
FracAdd(a, b) == [num |-> a.num * b.den + b.num * a.den, den |-> a.den * b.den]

RECURSIVE FracSum(_)
FracSum(fs) == IF fs = <<>> THEN Quotient(0, 1) ELSE FracAdd(Head(fs), FracSum(Tail(fs)))

\* C12: in the result of processActivePipelineDeals every bucket has
\* weightedAmount = pipelineAmount * stageWeight; with totalPipeline > 0 the
\* percentages of the buckets add up to 100, with totalPipeline = 0 each is
\* 0; totalPipeline and weightedPipeline are the sums of the buckets'
\* pipelineAmount and weightedAmount.  (An amount that is NaN makes the
\* products and sums it enters NaN.)
C12_WeightedPipeline ==
    WeeklyReported =>
        LET b == report.stageBreakdown
            total == report.metrics.totalPipeline
            numeric == \A i \in 1..Len(b) : b[i].pipelineAmount.t = "number"
        IN  /\ \A i \in 1..Len(b) :
                  IF b[i].pipelineAmount.t = "number"
                  THEN /\ b[i].weightedAmount # NaN
                       /\ FracEq(b[i].weightedAmount,
                                 Quotient(b[i].pipelineAmount.n * b[i].stageWeight, 100))
                  ELSE b[i].weightedAmount = NaN
            /\ IF numeric
               THEN /\ total = Num(SumSeq([i \in 1..Len(b) |-> b[i].pipelineAmount.n]))
                    /\ report.metrics.weightedPipeline # NaN
                    /\ FracEq(report.metrics.weightedPipeline,
                              FracSum([i \in 1..Len(b) |-> b[i].weightedAmount]))
               ELSE total = NaN /\ report.metrics.weightedPipeline = NaN
            /\ NumGT(total, 0) =>
                    FracEq(FracSum([i \in 1..Len(b) |-> b[i].percentageOfTotal]),
                           Quotient(100, 1))
            /\ total = Num(0) =>
                    \A i \in 1..Len(b) : FracEq(b[i].percentageOfTotal, Quotient(0, 1))

\* two buckets of different weight: SQL with 1 and Proposal with 2
C12_Witness ==
    /\ WeeklyReported
    /\ Len(report.stageBreakdown) = 2
    /\ report.stageBreakdown[1].stageWeight = 30
    /\ report.stageBreakdown[2].stageWeight = 50
    /\ report.metrics.totalPipeline = Num(3)
    /\ report.metrics.weightedPipeline = Quotient(130, 100)

\* no amount at all: every percentage is 0
C12_WitnessZero ==
    /\ WeeklyReported
    /\ Len(report.stageBreakdown) = 1
    /\ report.metrics.totalPipeline = Num(0)

StageNames(stages) == [i \in 1..Len(stages) |-> stages[i].stageName]

\* the deals of the list in the order p, a permutation of its positions
Permuted(deals, p) == [i \in 1..Len(deals) |-> deals[p[i]]]

\* C13 (as claimed): the order of the buckets of processActivePipelineDeals
\* does not depend on the order of the deals: every permutation of the deal
\* list gives the same sequence of bucket stage names, and in it SQL comes
\* before Demo Completed before Proposal.
C13_CanonicalOrder ==
    WeeklyReported =>
        LET names == StageNames(report.stageBreakdown)
        IN  /\ \A p \in Perms(Len(activeDeals)) :
                  StageNames(processActivePipelineDeals(Permuted(activeDeals, p),
                                                        pipelines).stageBreakdown) = names
            /\ \A i, j \in 1..Len(names) :
                  (i < j /\ IndexOf(stageOrder, names[i]) >= 0
                         /\ IndexOf(stageOrder, names[j]) >= 0)
                      => IndexOf(stageOrder, names[i]) <= IndexOf(stageOrder, names[j])

\* C14 (as claimed): processActivePipelineDeals buckets the deals by their
\* normalized stage label, so no two buckets of the output have the same
\* stageName (all deals of stages whose label contains "sql" are in the one
\* SQL bucket, and likewise for Demo Completed and Proposal).
C14_OneBucketPerName ==
    WeeklyReported =>
        \A i, j \in 1..Len(report.stageBreakdown) :
            report.stageBreakdown[i].stageName = report.stageBreakdown[j].stageName => i = j

\* what a deal's amount is worth: its number if it reads as one, else 0
Contribution(deal) ==
    IF AmountReadable(deal) THEN parseFloat(deal.properties.amount).n ELSE 0

InWeekDeals(deals, dateProperty) ==
    {i \in 1..Len(deals) :
        LET ts == deals[i].properties[dateProperty]
        IN  /\ IsIsoStr(ts)
            /\ AtLE(week.weekStart.ms, ts.iso) /\ AtLE(ts.iso, week.weekEnd.ms)}

\* C15 (as claimed): in processActivePipelineDeals and processClosedDeals a
\* deal whose amount is absent, null, empty or text that is no number adds
\* exactly 0 to the amounts and is still counted: the totals are the sums of
\* the readable amounts, the counts are the numbers of deals.
C15_UnparseableAmountIsZero ==
    WeeklyReported =>
        /\ report.metrics.totalPipeline =
              Num(SumOver([i \in 1..Len(activeDeals) |-> Contribution(activeDeals[i])],
                         1..Len(activeDeals)))
        /\ SumSeq([i \in 1..Len(report.stageBreakdown) |->
                      report.stageBreakdown[i].dealCount]) = Len(activeDeals)
        /\ report.metrics.closedWon =
              LET counted == InWeekDeals(closedWonDeals, "hs_date_entered_closedwon")
              IN  [count |-> Cardinality(counted),
                   amount |-> Num(SumOver([i \in counted |-> Contribution(closedWonDeals[i])],
                                         counted))]
        /\ report.metrics.closedLost =
              LET counted == InWeekDeals(closedLostDeals, "hs_date_entered_closedlost")
              IN  [count |-> Cardinality(counted),
                   amount |-> Num(SumOver([i \in counted |-> Contribution(closedLostDeals[i])],
                                         counted))]

----------------------------------------------------------------------------
(* Forecast: the breakdowns of the summary                                  *)

ForecastSummarized == script = "forecast" /\ pc = "summarized"

\* the owner of the raw deal i of salesDeals; Null when it has none
RawOwner(i) ==
    LET ow == salesDeals[i].properties.hubspot_owner_id
    IN  IF ow \in {Undefined, Null, Str(<<>>)} THEN Null ELSE ow

\* the ids of the deals of a bucket, in their order
DealIds(deals) == [k \in 1..Len(deals) |-> deals[k].dealId]

\* the least element of a non-empty set of numbers
Least(S) == CHOOSE x \in S : \A y \in S : x <= y

\* C16: ownerBreakdown of createForecastSummary has exactly one bucket per
\* distinct owner among the forecast deals, the deals without an owner
\* sharing one bucket; each bucket holds the deals of its owner and their
\* sum; the buckets come in order of non-increasing totalARR, and buckets of
\* equal totalARR in the order in which their owners are first met.
C16_OwnerBreakdown ==
    ForecastSummarized =>
        LET ob == summary.ownerBreakdown
            owners == {RawOwner(i) : i \in ForecastPopulation}
            Of(ow) == {i \in ForecastPopulation : RawOwner(i) = ow}
        IN  /\ Len(ob) = Cardinality(owners)
            /\ {ob[k].ownerId : k \in 1..Len(ob)} = owners
            /\ \A k \in 1..Len(ob) :
                  /\ {ob[k].deals[j].dealId : j \in 1..Len(ob[k].deals)} = Of(ob[k].ownerId)
                  /\ ob[k].dealCount = Cardinality(Of(ob[k].ownerId))
                  /\ ob[k].totalARR = AmountsAdded(Of(ob[k].ownerId))
            /\ \A k, l \in 1..Len(ob) :
                  k < l =>
                     \/ DoubleLT(ob[l].totalARR, ob[k].totalARR)
                     \/ /\ ob[k].totalARR = ob[l].totalARR
                        /\ Least(Of(ob[k].ownerId)) < Least(Of(ob[l].ownerId))

\* three buckets: two owners with equal totals in the order they were met,
\* after them the bucket of the deals without owner, whose deal came first
C16_Witness ==
    /\ ForecastSummarized
    /\ Len(summary.ownerBreakdown) = 3
    /\ summary.ownerBreakdown[1].totalARR = summary.ownerBreakdown[2].totalARR
    /\ summary.ownerBreakdown[3].ownerId = Null
    /\ summary.ownerBreakdown[3].deals[1].dealId = 1

\* two deals without owner share the one bucket there is
C16_WitnessUnassigned ==
    /\ ForecastSummarized
    /\ Len(summary.ownerBreakdown) = 1
    /\ summary.ownerBreakdown[1].ownerId = Null
    /\ summary.ownerBreakdown[1].dealCount = 2
    /\ RawOwner(1) # salesDeals[1].properties.hubspot_owner_id \/
       RawOwner(2) # salesDeals[2].properties.hubspot_owner_id

\* every quarter of the calendar
AllQuarters ==
    {getCurrentQuarter(NewLocalDate(y, m, 15, 0, 0, 0, 0)) : y \in Years, m \in 0..11}

\* the month (1-12) in which the raw deal i of salesDeals closes
RawCloseMonth(i) == getMonth(DateOf(salesDeals[i].properties.closedate.iso)) + 1

\* mb has one bucket for each of the three months of quarter q, in calendar
\* order, named after its month
ThreeMonthsOf(mb, q) ==
    /\ Len(mb) = 3
    /\ \A k \in 1..3 :
          /\ mb[k].monthNumber = 3 * (q.quarter - 1) + k
          /\ mb[k].month = [month |-> 3 * (q.quarter - 1) + k - 1, year |-> q.year]

\* C17: monthlyBreakdown of createForecastSummary has, for every quarter and
\* every list of forecast deals, the empty list too, exactly one bucket for
\* each of the three months of the quarter, in calendar order; a bucket
\* counts the deals closing in its month, and a month without deals has
\* dealCount 0 and totalARR 0.
C17_MonthlyBuckets ==
    /\ pc = "start" =>
          \A q \in AllQuarters :
             LET mb == createForecastSummary(<<>>, q, 0).monthlyBreakdown
             IN  /\ ThreeMonthsOf(mb, q)
                 /\ \A k \in 1..3 : mb[k].dealCount = 0 /\ mb[k].totalARR = DoubleZero
    /\ ForecastLoopDone =>
          LET mb == createForecastSummary(forecastDeals, quarter, skippedCount).monthlyBreakdown
              In(month) == {i \in ForecastPopulation : RawCloseMonth(i) = month}
          IN  /\ pc = "summarized" => summary.monthlyBreakdown = mb
              /\ ThreeMonthsOf(mb, quarter)
              /\ \A k \in 1..3 :
                    /\ {mb[k].deals[j].dealId : j \in 1..Len(mb[k].deals)} = In(mb[k].monthNumber)
                    /\ mb[k].dealCount = Cardinality(In(mb[k].monthNumber))
                    /\ mb[k].totalARR = AmountsAdded(In(mb[k].monthNumber))
                    /\ In(mb[k].monthNumber) = {}
                          => (mb[k].dealCount = 0 /\ mb[k].totalARR = DoubleZero)

\* a summary whose first two months have deals and whose third has none
C17_Witness ==
    /\ ForecastSummarized
    /\ summary.monthlyBreakdown[1].dealCount = 2
    /\ summary.monthlyBreakdown[2].dealCount = 1
    /\ summary.monthlyBreakdown[3].dealCount = 0
    /\ summary.monthlyBreakdown[3].totalARR = DoubleZero

----------------------------------------------------------------------------
(* The clock reads: the claims                                              *)

EndOfDay == TimeOfDay(23, 59, 59, 999)

QuarterRead == script = "forecast" /\ pc = "clock"

\* C18: getCurrentQuarter returns quarter = floor(month / 3) + 1 for the
\* month (0-11) of now; startDate is the first instant of the first month of
\* that quarter, endDate is 23:59:59.999 of the last day of its third month,
\* and startDate <= now <= endDate.
C18_QuarterBounds ==
    QuarterRead =>
        LET nowDate == DateOf(now)
            year == getFullYear(nowDate)
            q == (getMonth(nowDate) \div 3) + 1
        IN  /\ quarter.year = year
            /\ quarter.quarter = q
            /\ getMonth(nowDate) \in {3 * (q - 1), 3 * (q - 1) + 1, 3 * (q - 1) + 2}
            /\ quarter.startDate = DateOf(At(DayNumber(year, 3 * (q - 1), 1), 0))
            /\ quarter.endDate.valid
            /\ quarter.endDate.ms.tod = EndOfDay
            /\ quarter.endDate.ms.day + 1 = DayNumber(year, 3 * q, 1)
            /\ quarter.endDate.ms.day =
                  DayNumber(year, 3 * q - 1, DaysInMonth(year, 3 * q - 1))
            /\ AtLE(quarter.startDate.ms, now)
            /\ AtLE(now, quarter.endDate.ms)

\* the quarter read at the last instant of a first quarter that has a
\* leap day
C18_Witness ==
    /\ QuarterRead
    /\ quarter.quarter = 1
    /\ IsLeap(quarter.year)
    /\ now = quarter.endDate.ms

WeekRead == script = "weekly-forecast" /\ pc = "clock"

\* C19: getCurrentWeek returns weekStart = 00:00:00.000 of the Monday on or
\* before now (six days earlier when now is a Sunday) and weekEnd =
\* 23:59:59.999 of the Sunday six days after it, so weekStart <= now <=
\* weekEnd.
C19_WeekBounds ==
    WeekRead =>
        /\ week.weekStart.valid /\ week.weekEnd.valid
        /\ week.weekStart.ms.tod = 0
        /\ week.weekStart.ms.day % 7 = 1
        /\ week.weekStart.ms.day <= now.day
        /\ now.day - week.weekStart.ms.day <= 6
        /\ (now.day % 7 = 0) => (week.weekStart.ms.day = now.day - 6)
        /\ week.weekEnd.ms = At(week.weekStart.ms.day + 6, EndOfDay)
        /\ week.weekEnd.ms.day % 7 = 0
        /\ AtLE(week.weekStart.ms, now)
        /\ AtLE(now, week.weekEnd.ms)

\* the week read on a Sunday, the Monday six days earlier lying in the
\* month before
C19_Witness ==
    /\ WeekRead
    /\ getDay(DateOf(now)) = 0
    /\ getMonth(week.weekStart) # getMonth(DateOf(now))
    /\ now.tod = EndOfDay

----------------------------------------------------------------------------
(* Stage aging: the stage-entry date                                        *)

V2Name(stageId) == PropName("hs_v2_date_entered_", stageId)
LegacyName(stageId) == PropName("hs_date_entered_", stageId)

\* the property named name has a non-empty value on the raw deal
HasValue(raw, name) ==
    name \in DOMAIN raw.properties /\ raw.properties[name] \notin {Undefined, Null, Str(<<>>)}

\* the deals of results the loop has gone through and that are in a
\* monitored stage
AgingProcessed ==
    {i \in 1..Len(results) :
        i < cursor /\ FindStageConfig(Get(results[i].properties, Plain("dealstage"))) # Undefined}

\* C20: the stage-entry date of a deal is taken from hs_v2_date_entered_<id>
\* when that has a value and else from hs_date_entered_<id>; a deal with only
\* the legacy property is analysed with that property's name and value; and
\* datePropertyUsed of every StageAgingDeal names the property whose value
\* became dateEnteredStage.
C20_StageEntryResolution ==
    (script = "stage-aging" /\ pc \in {"loop", "summarized"}) =>
        /\ \A k \in 1..Len(analyzedDeals) :
              LET d == analyzedDeals[k]
                  raw == results[d.dealId]
              IN  /\ d.dealId \in AgingProcessed
                  /\ d.datePropertyUsed \in {V2Name(d.dealStage), LegacyName(d.dealStage)}
                  /\ HasValue(raw, V2Name(d.dealStage)) => d.datePropertyUsed = V2Name(d.dealStage)
                  /\ HasValue(raw, d.datePropertyUsed)
                  /\ d.dateEnteredStage = NewDate(raw.properties[d.datePropertyUsed])
        /\ \A i \in AgingProcessed :
              LET st == results[i].properties[Plain("dealstage")].s
              IN  (HasValue(results[i], LegacyName(st)) /\ ~HasValue(results[i], V2Name(st)))
                     => \E k \in 1..Len(analyzedDeals) :
                           /\ analyzedDeals[k].dealId = i
                           /\ analyzedDeals[k].datePropertyUsed = LegacyName(st)

\* a deal analysed from its legacy property, its v2 property being empty,
\* and a deal with only the legacy property
C20_Witness ==
    /\ script = "stage-aging" /\ pc = "loop"
    /\ \E k, l \in 1..Len(analyzedDeals) :
          LET d == analyzedDeals[k]
              e == analyzedDeals[l]
          IN  /\ d.datePropertyUsed = LegacyName(d.dealStage)
              /\ V2Name(d.dealStage) \in DOMAIN results[d.dealId].properties
              /\ e.datePropertyUsed = LegacyName(e.dealStage)
              /\ V2Name(e.dealStage) \notin DOMAIN results[e.dealId].properties

\* a deal with both properties, of different values, analysed from the v2 one
C20_WitnessBoth ==
    /\ script = "stage-aging" /\ pc = "loop"
    /\ \E k \in 1..Len(analyzedDeals) :
          LET d == analyzedDeals[k]
              raw == results[d.dealId]
          IN  /\ d.datePropertyUsed = V2Name(d.dealStage)
              /\ HasValue(raw, LegacyName(d.dealStage))
              /\ raw.properties[LegacyName(d.dealStage)] # raw.properties[V2Name(d.dealStage)]

----------------------------------------------------------------------------
(* Stage aging: the deals that are passed over                              *)

\* the raw deal i of results is in a stage that has a StageAgingConfig
InMonitoredStage(i) ==
    \E k \in 1..Len(STAGE_CONFIGS) :
        Get(results[i].properties, Plain("dealstage")) = Str(STAGE_CONFIGS[k].stageId)

\* a stage-entry property of the raw deal i has a value
EntryDateResolvable(i) ==
    LET st == results[i].properties[Plain("dealstage")].s
    IN  HasValue(results[i], V2Name(st)) \/ HasValue(results[i], LegacyName(st))

\* the indices below n of the deals that are to be analysed, in order
AnalysedBelow(n) ==
    SelectSeq([i \in 1..(n - 1) |-> i],
              LAMBDA i : InMonitoredStage(i) /\ EntryDateResolvable(i))

\* C21: in a stage-aging run a deal in a stage without StageAgingConfig, or
\* without a resolvable stage-entry date, is passed over without ending the
\* run, and every other deal is analysed: analyzedDeals is the subsequence
\* of the fetched deals in a monitored stage with a resolvable stage-entry
\* date, in input order, and the run reaches its summary over all of them.
C21_SkipIsolation ==
    script = "stage-aging" =>
        /\ pc \in {"start", "loop", "summarized", "done"}
        /\ pc = "done" => results = <<>>
        /\ pc \in {"loop", "summarized"} =>
              /\ cursor <= Len(results) + 1
              /\ DealIds(analyzedDeals) = AnalysedBelow(cursor)
        /\ pc = "summarized" =>
              /\ DealIds(analyzedDeals) = AnalysedBelow(Len(results) + 1)
              /\ summary.totalDeals = Len(AnalysedBelow(Len(results) + 1))

\* a run summarized over the first and the third deal, the second deal being
\* in a monitored stage without a stage-entry date
C21_Witness ==
    /\ AgingSummarized
    /\ Len(results) = 3
    /\ InMonitoredStage(2) /\ ~EntryDateResolvable(2)
    /\ DealIds(analyzedDeals) = <<1, 3>>

\* the same with the second deal in a stage that is not monitored
C21_WitnessUnknownStage ==
    /\ AgingSummarized
    /\ Len(results) = 3
    /\ ~InMonitoredStage(2)
    /\ DealIds(analyzedDeals) = <<1, 3>>

----------------------------------------------------------------------------
(* Weekly forecast: stage ids shared by two pipelines                       *)

\* the label of the stage with the deal's stage id in the deal's own pipeline
OwnStageLabel(deal, pls) ==
    LET own == {p \in 1..Len(pls) : pls[p].id = deal.properties.pipeline}
        p == CHOOSE x \in own : TRUE
        ks == {k \in 1..Len(pls[p].stages) : pls[p].stages[k].id = deal.properties.dealstage}
    IN  pls[p].stages[CHOOSE k \in ks : TRUE].label

\* C23 (as claimed): when two pipelines have a stage with the same id, the
\* label under which processActivePipelineDeals buckets and weights a deal is
\* the label of that stage in the deal's own pipeline: the deal is counted in
\* a bucket named and weighted after its own stage.
C23_OwnPipelineLabel ==
    WeeklyReported =>
        \A i \in 1..Len(activeDeals) :
            LET label == OwnStageLabel(activeDeals[i], pipelines)
            IN  \E b \in 1..Len(report.stageBreakdown) :
                   /\ report.stageBreakdown[b].stageName = getReadableStageName(label)
                   /\ report.stageBreakdown[b].stageWeight = getStageWeight(label)

----------------------------------------------------------------------------
(* Deal hygiene: an amount that is no number                                *)

\* v is text that is not blank and does not read as a number
NonNumericText(v) == IsCharStr(v) /\ Trim(v.s) # <<>> /\ isNaN(parseFloat(v))

\* C24 (as claimed): in completeness scoring a deal whose amount is a
\* non-empty text that is no number is classified as missing for the Amount
\* requirement (and scoring it does not throw: the deal has its report).
C24_NonNumericAmountMissing ==
    InHygiene =>
        \A i \in 1..Len(reports) :
            \A k \in 1..Len(reports[i].propertyChecks) :
                LET check == reports[i].propertyChecks[k]
                IN  (check.propertyName = "amount" /\ NonNumericText(check.value))
                        => check.isMissing

----------------------------------------------------------------------------
(* Forecast: the buckets partition the deals                                *)

\* how many times the deal with id id is listed in the buckets
TimesListed(buckets, id) ==
    SumSeq([b \in 1..Len(buckets) |->
               Cardinality({j \in 1..Len(buckets[b].deals) : buckets[b].deals[j].dealId = id})])

\* the buckets list every deal of the summary once and none else
ListEachDealOnce(buckets, s) ==
    /\ \A k \in 1..Len(s.allDeals) : TimesListed(buckets, s.allDeals[k].dealId) = 1
    /\ \A b \in 1..Len(buckets) : \A j \in 1..Len(buckets[b].deals) :
          \E k \in 1..Len(s.allDeals) : s.allDeals[k] = buckets[b].deals[j]

\* the dealCount of the buckets add up to totalDeals
CountsAddUp(buckets, s) ==
    SumSeq([b \in 1..Len(buckets) |-> buckets[b].dealCount]) = s.totalDeals

\* the totalARR of the buckets, added up, give totalARR
TotalsAddUp(buckets, s) ==
    DoubleSum([b \in 1..Len(buckets) |-> buckets[b].totalARR]) = s.totalARR

\* the buckets list every deal of the summary once and none else, and their
\* totals and counts add up to those of the summary
Partitions(buckets, s) ==
    /\ ListEachDealOnce(buckets, s)
    /\ TotalsAddUp(buckets, s)
    /\ CountsAddUp(buckets, s)

\* every amount of the summary is a whole number
WholeAmounts(s) == \A k \in 1..Len(s.allDeals) : s.allDeals[k].amount.e >= 0

\* C27 (as claimed): in every ForecastSummary the monthly buckets and the
\* owner buckets each partition allDeals: every forecast deal is in exactly
\* one monthly and exactly one owner bucket, the monthly and the owner
\* totalARR both sum to totalARR and the monthly and the owner dealCount
\* both sum to totalDeals.
C27_BucketsPartition ==
    ForecastSummarized =>
        /\ Partitions(summary.monthlyBreakdown, summary)
        /\ Partitions(summary.ownerBreakdown, summary)

\* C27 (amended): in every ForecastSummary every forecast deal is in exactly
\* one monthly and exactly one owner bucket and the monthly and the owner
\* dealCount both sum to totalDeals; the monthly and the owner totalARR both
\* sum to totalARR when every amount is a whole number (amounts with a
\* fraction are added in another order for the buckets than for the total,
\* and the rounded sums can differ).
C27_BucketsPartitionWhole ==
    ForecastSummarized =>
        /\ ListEachDealOnce(summary.monthlyBreakdown, summary)
        /\ ListEachDealOnce(summary.ownerBreakdown, summary)
        /\ CountsAddUp(summary.monthlyBreakdown, summary)
        /\ CountsAddUp(summary.ownerBreakdown, summary)
        /\ WholeAmounts(summary) =>
              /\ TotalsAddUp(summary.monthlyBreakdown, summary)
              /\ TotalsAddUp(summary.ownerBreakdown, summary)

\* a summary of three deals with whole amounts in two months and of two
\* owners
C27_Witness ==
    /\ ForecastSummarized
    /\ WholeAmounts(summary)
    /\ summary.totalDeals = 3
    /\ summary.monthlyBreakdown[1].dealCount = 1
    /\ summary.monthlyBreakdown[2].dealCount = 2
    /\ Len(summary.ownerBreakdown) = 2
    /\ summary.ownerBreakdown[1].dealCount = 2

\* a summary of three deals, one with cents, whose monthly totals do not
\* add up to totalARR
C27_WitnessCents ==
    /\ ForecastSummarized
    /\ summary.totalDeals = 3
    /\ ~WholeAmounts(summary)
    /\ ~TotalsAddUp(summary.monthlyBreakdown, summary)

----------------------------------------------------------------------------
(* Stage aging: the counts of the summary                                   *)

\* the greatest of three numbers
Max3(a, b, c) ==
    IF a >= b /\ a >= c THEN a ELSE IF b >= c THEN b ELSE c

\* C30: in every StageAgingSummary the per-stage totalDeals sum to
\* totalDeals, the per-stage flaggedDeals sum to staleDeals, totalFlagged is
\* at least each of staleDeals, noActivityDeals and pastDueDeals and at most
\* their sum, and totalFlagged is at most totalDeals.
C30_SummaryCounts ==
    AgingSummarized =>
        LET b == summary.stageBreakdowns
        IN  /\ SumSeq([k \in 1..Len(b) |-> b[k].totalDeals]) = summary.totalDeals
            /\ SumSeq([k \in 1..Len(b) |-> b[k].flaggedDeals]) = summary.staleDeals
            /\ Max3(summary.staleDeals, summary.noActivityDeals, summary.pastDueDeals)
                   <= summary.totalFlagged
            /\ summary.totalFlagged
                   <= summary.staleDeals + summary.noActivityDeals + summary.pastDueDeals
            /\ summary.totalFlagged <= summary.totalDeals

\* a summary with a deal that is flagged for two reasons, one that is
\* flagged without being stale and one that is not flagged
C30_Witness ==
    /\ AgingSummarized
    /\ summary.totalDeals = 3
    /\ summary.totalFlagged = 2
    /\ summary.staleDeals = 1
    /\ summary.noActivityDeals + summary.pastDueDeals >= 2

----------------------------------------------------------------------------
(* The forecasts: rendering and narrating the report                        *)

\* C26 (as claimed): narrating is fire-and-forget in the quarterly and in
\* the weekly forecast run: when the text-generation call fails the report
\* has been displayed and the run still ends successfully.
C26_NarrationFailureHarmless ==
    (script \in {"forecast", "weekly-forecast"} /\ narration = "error")
        => exitCode = Exited(0)

\* C28 (as claimed): displayForecastReport and generateForecastEmail leave
\* the ForecastSummary as it was, the order of the deals in every list
\* included.
C28_RenderingKeepsSummary ==
    [][(script = "forecast" /\ pc \in {"summarized", "displayed"})
          => summary' = summary]_vars

----------------------------------------------------------------------------
(* Deal hygiene: the run against the CRM                                    *)

\* the stage ids main searches for
TargetStageIds == findStageIdsByLabels(pipelines, TargetStages)

\* the ids of raw deals, in order
RawIds(deals) == [k \in 1..Len(deals) |-> deals[k].id]

\* the search of the run has been made
HygieneSearched == script = "deal-hygiene" /\ pc \in {"loop", "summarized"}

\* C22 (as claimed): a hygiene run whose list of required properties is
\* empty fails with a configuration error before any deal is scored and
\* before any report is produced.
C22_EmptyListFailsFast ==
    (script = "deal-hygiene" /\ RequiredProperties(typesModule) = <<>>)
        => (reports = <<>> /\ summary = NoSummary)

\* C25 (as claimed): searchDealsByStages returns every deal of the CRM that
\* is in one of the stage ids given, however many there are.
C25_SearchReturnsAll ==
    (HygieneSearched /\ Len(TargetStageIds) > 0) =>
        RawIds(results) =
            RawIds(SelectSeq(crmDeals,
                       LAMBDA d : d.properties.dealstage \in RangeOf(TargetStageIds)))

\* C29 (as claimed): in a deal-hygiene run every analysed deal is in a stage
\* whose label contains 'proposal' or 'demo', and when no stage of the
\* portal has such a label no deal is analysed.
C29_OnlyTargetStages ==
    script = "deal-hygiene" =>
        /\ \A i \in 1..Len(reports) :
              LET label == Trim(toLowerCase(OwnStageLabel(results[i], pipelines)))
              IN  \E t \in 1..Len(TargetStages) : includes(label, TargetStages[t])
        /\ Len(TargetStageIds) = 0 => reports = <<>>

====
